---- MODULE Spec2Model ----
(***************************************************************************)
(* Ocean-Navy-Bot: the webhook pipeline                                    *)
(*   normalizeLogs -> decodeLogs (sub-decoders + transfer matcher)         *)
(*   -> DedupeManager -> classifyBuys -> telegramClient.broadcastBuyAlert  *)
(*                                                                         *)
(* Strings that the code compares or lowercases are records                *)
(* [s |-> text, up |-> has upper-case letters]; toLowerCase clears `up`.   *)
(* Log data is the sequence of its ABI words; topics are <<signature,      *)
(* indexed arguments...>>.                                                  *)
(***************************************************************************)
EXTENDS Integers, Sequences, FiniteSets, TLC

\* ------------------------------------------------------------------ values

Undef == [undef |-> TRUE]
Null == [null |-> TRUE]

Str(t) == [s |-> t, up |-> FALSE]
Upper(t) == [s |-> t, up |-> TRUE]

\* String.prototype.toLowerCase
toLowerCase(x) == [s |-> x.s, up |-> FALSE]

\* JS truthiness of an optional string
Truthy(x) == x # Undef /\ x # Null /\ x # Str("")

\* ------------------------------------------------------- config/constants

OCEAN_MAINNET == Str("0xocean")
MOCEAN_POLYGON == Str("0xmocean")
WETH == Str("0xweth")
USDT == Str("0xusdt")
WMATIC == Str("0xwmatic")

\* env.OCEAN_ADDRESS as documented in the README (mixed-case checksum form)
ENV_OCEAN_ADDRESS == Upper("0xocean")

OCEAN_TOKEN == [address |-> toLowerCase(ENV_OCEAN_ADDRESS), symbol |-> "OCEAN"]

OCEAN_TOKEN_BY_CHAIN(chainId) ==
    IF chainId = 1 THEN [address |-> OCEAN_MAINNET, symbol |-> "OCEAN"]
    ELSE IF chainId = 137 THEN [address |-> MOCEAN_POLYGON, symbol |-> "mOCEAN"]
    ELSE Undef

BALANCER_VAULT_ADDRESS == toLowerCase(Upper("0xvault"))

UNISWAP_V2_SWAP_TOPIC == Str("topic:v2swap")
UNISWAP_V3_SWAP_TOPIC == Str("topic:v3swap")
BALANCER_SWAP_TOPIC == Str("topic:balswap")
TRANSFER_TOPIC == Str("topic:transfer")

\* ----------------------------------------------------------- config/pools

V2_POOL_ADDRESS == Str("0xv2pool")
V3_POOL_ADDRESS == Str("0xv3pool")
V3_USDT_POOL_ADDRESS == Str("0xv3usdt")
BALANCER_POOL_ADDRESS == Str("0xbalpool")
BALANCER_POOL_ID == Str("0xbalpool000200")
QUICKSWAP_POOL_ADDRESS == Str("0xquick")

KNOWN_POOLS ==
    << [type |-> "uniswap-v2", chainId |-> 1, chainName |-> "Ethereum",
        address |-> V2_POOL_ADDRESS, token0 |-> OCEAN_MAINNET, token1 |-> WETH,
        poolId |-> Undef, label |-> "Uniswap v2 OCEAN/WETH"],
       [type |-> "uniswap-v3", chainId |-> 1, chainName |-> "Ethereum",
        address |-> V3_POOL_ADDRESS, token0 |-> OCEAN_MAINNET, token1 |-> WETH,
        poolId |-> Undef, label |-> "Uniswap v3 OCEAN/WETH 0.3%"],
       [type |-> "uniswap-v3", chainId |-> 1, chainName |-> "Ethereum",
        address |-> V3_USDT_POOL_ADDRESS, token0 |-> OCEAN_MAINNET, token1 |-> USDT,
        poolId |-> Undef, label |-> "Uniswap v3 OCEAN/USDT 0.3%"],
       [type |-> "balancer-v2", chainId |-> 1, chainName |-> "Ethereum",
        address |-> BALANCER_POOL_ADDRESS, token0 |-> Undef, token1 |-> Undef,
        poolId |-> BALANCER_POOL_ID, label |-> "Balancer v2 psdnOCEAN/OCEAN"],
       [type |-> "uniswap-v2", chainId |-> 137, chainName |-> "Polygon",
        address |-> QUICKSWAP_POOL_ADDRESS, token0 |-> WMATIC, token1 |-> MOCEAN_POLYGON,
        poolId |-> Undef, label |-> "QuickSwap OCEAN/WMATIC"] >>

\* Array.prototype.find: the first element whose test holds, or Undef;
\* test[i] is the callback's answer for seq[i]
Find(seq, test) ==
    IF \E i \in 1..Len(seq) : test[i]
    THEN seq[CHOOSE i \in 1..Len(seq) : test[i] /\ \A j \in 1..(i - 1) : ~test[j]]
    ELSE Undef

\* Mutant: an address of no registered pool resolves to the first pool
getPoolByAddressOrFirst(address) ==
    LET found == Find(KNOWN_POOLS,
                      [i \in 1..Len(KNOWN_POOLS) |->
                           toLowerCase(KNOWN_POOLS[i].address) = toLowerCase(address)])
    IN IF found = Undef THEN KNOWN_POOLS[1] ELSE found

getPoolByAddress(address) ==
    Find(KNOWN_POOLS,
         [i \in 1..Len(KNOWN_POOLS) |->
              toLowerCase(KNOWN_POOLS[i].address) = toLowerCase(address)])

\* ------------------------------------------------------ viem decodeEventLog

\* An ABI with one event: its selector, the number of indexed inputs
\* (topics after the signature) and of data words.
Univ2PoolAbi == [selector |-> UNISWAP_V2_SWAP_TOPIC, name |-> "Swap", indexed |-> 2, words |-> 4]
Univ3PoolAbi == [selector |-> UNISWAP_V3_SWAP_TOPIC, name |-> "Swap", indexed |-> 2, words |-> 5]
BalancerVaultAbi == [selector |-> BALANCER_SWAP_TOPIC, name |-> "Swap", indexed |-> 3, words |-> 2]
Erc20TransferAbi == [selector |-> TRANSFER_TOPIC, name |-> "Transfer", indexed |-> 2, words |-> 1]

\* decodeEventLog throws (ok = FALSE) when the topic list is empty, the
\* signature is not the selector of an event of the ABI, an indexed argument
\* has no topic or the data is shorter than the non-indexed arguments.
decodeEventLog(abi, log) ==
    IF /\ Len(log.topics) >= 1
       /\ log.topics[1] = abi.selector
       /\ Len(log.topics) - 1 >= abi.indexed
       /\ Len(log.data) >= abi.words
    THEN [ok |-> TRUE, eventName |-> abi.name]
    ELSE [ok |-> FALSE, eventName |-> ""]

\* ---------------------------------------------------------------- dex/univ2

\* Mutant: the token ordering of the registry is ignored
oceanIsToken0Always(pool) == TRUE

\* pool.token0.toLowerCase() === OCEAN_TOKEN.address
oceanIsToken0(pool) == toLowerCase(pool.token0) = OCEAN_TOKEN.address

decodeUniswapV2Swap(log) ==
    LET pool == getPoolByAddress(log.address) IN
    IF pool = Undef \/ pool.type # "uniswap-v2" THEN Null
    ELSE
    LET decoded == decodeEventLog(Univ2PoolAbi, log) IN
    IF ~decoded.ok THEN Null
    ELSE IF decoded.eventName # "Swap" THEN Null
    ELSE
    LET amount0In == log.data[1]
        amount1In == log.data[2]
        amount0Out == log.data[3]
        amount1Out == log.data[4]
        to == log.topics[3]
        oceanOut == IF oceanIsToken0(pool) THEN amount0Out ELSE amount1Out
        oceanIn == IF oceanIsToken0(pool) THEN amount0In ELSE amount1In
        isBuy == oceanOut > 0
        oceanAmount == IF isBuy THEN oceanOut ELSE oceanIn
    IN [dex |-> "uniswap-v2", chainId |-> pool.chainId, chainName |-> pool.chainName,
        poolLabel |-> pool.label, transactionHash |-> log.transactionHash,
        logIndex |-> log.logIndex, blockNumber |-> log.blockNumber,
        oceanAmount |-> oceanAmount, isBuy |-> isBuy,
        buyerAddress |-> IF isBuy THEN toLowerCase(to) ELSE Undef,
        removed |-> log.removed]

\* ---------------------------------------------------------------- dex/univ3

\* Mutant: a zero delta counts as a purchase
isBuyV3OrZero(oceanAmount) == oceanAmount <= 0

\* const isBuy = oceanAmount < 0n
isBuyV3(oceanAmount) == oceanAmount < 0

decodeUniswapV3Swap(log) ==
    LET pool == getPoolByAddress(log.address) IN
    IF pool = Undef \/ pool.type # "uniswap-v3" THEN Null
    ELSE
    LET decoded == decodeEventLog(Univ3PoolAbi, log) IN
    IF ~decoded.ok THEN Null
    ELSE IF decoded.eventName # "Swap" THEN Null
    ELSE
    LET amount0 == log.data[1]
        amount1 == log.data[2]
        recipient == log.topics[3]
        oceanAmount == IF oceanIsToken0(pool) THEN amount0 ELSE amount1
        isBuy == isBuyV3(oceanAmount)
        absOceanAmount == IF oceanAmount < 0 THEN -oceanAmount ELSE oceanAmount
    IN [dex |-> "uniswap-v3", chainId |-> pool.chainId, chainName |-> pool.chainName,
        poolLabel |-> pool.label, transactionHash |-> log.transactionHash,
        logIndex |-> log.logIndex, blockNumber |-> log.blockNumber,
        oceanAmount |-> absOceanAmount, isBuy |-> isBuy,
        buyerAddress |-> IF isBuy THEN toLowerCase(recipient) ELSE Undef,
        removed |-> log.removed]

\* ------------------------------------------------------------- dex/balancer

decodeBalancerV2Swap(log) ==
    LET decoded == decodeEventLog(BalancerVaultAbi, log) IN
    IF ~decoded.ok THEN Null
    ELSE IF decoded.eventName # "Swap" THEN Null
    ELSE
    LET poolId == log.topics[2]
        tokenOut == log.topics[4]
        amountOut == log.data[2]
        pool == Find(KNOWN_POOLS,
                     [i \in 1..Len(KNOWN_POOLS) |->
                          /\ KNOWN_POOLS[i].type = "balancer-v2"
                          /\ toLowerCase(KNOWN_POOLS[i].poolId) = toLowerCase(poolId)])
        isBuy == toLowerCase(tokenOut) = OCEAN_TOKEN.address
    IN IF pool = Undef THEN Null
       ELSE IF ~isBuy THEN Null
       ELSE [dex |-> "balancer-v2", chainId |-> pool.chainId, chainName |-> pool.chainName,
             poolLabel |-> pool.label, transactionHash |-> log.transactionHash,
             logIndex |-> log.logIndex, blockNumber |-> log.blockNumber,
             oceanAmount |-> amountOut, isBuy |-> isBuy,
             buyerAddress |-> log.transactionFrom,
             removed |-> log.removed]

\* ---------------------------------------------------- core/transfer-matcher

\* Mutant: the try/catch encloses the loop, so that the first transfer that
\* cannot be decoded ends the extraction
RECURSIVE extractTransferEventsFromAborting(_, _, _)
extractTransferEventsFromAborting(logs, i, oceanToken) ==
    IF i > Len(logs) THEN << >>
    ELSE
    LET log == logs[i]
        rest == extractTransferEventsFromAborting(logs, i + 1, oceanToken)
    IN IF /\ log.address = toLowerCase(oceanToken.address)
          /\ Len(log.topics) >= 1
          /\ log.topics[1] = TRANSFER_TOPIC
       THEN IF decodeEventLog(Erc20TransferAbi, log).ok
            THEN << [transactionHash |-> log.transactionHash,
                     from |-> toLowerCase(log.topics[2]),
                     to |-> toLowerCase(log.topics[3]),
                     value |-> log.data[1],
                     logIndex |-> log.logIndex] >> \o rest
            ELSE << >>
       ELSE rest

RECURSIVE extractTransferEventsFrom(_, _, _)
extractTransferEventsFrom(logs, i, oceanToken) ==
    IF i > Len(logs) THEN << >>
    ELSE
    LET log == logs[i]
        rest == extractTransferEventsFrom(logs, i + 1, oceanToken)
    IN IF /\ log.address = toLowerCase(oceanToken.address)
          /\ Len(log.topics) >= 1
          /\ log.topics[1] = TRANSFER_TOPIC
          /\ decodeEventLog(Erc20TransferAbi, log).ok
       THEN << [transactionHash |-> log.transactionHash,
                from |-> toLowerCase(log.topics[2]),
                to |-> toLowerCase(log.topics[3]),
                value |-> log.data[1],
                logIndex |-> log.logIndex] >> \o rest
       ELSE rest

extractTransferEvents(logs, chainId) ==
    LET oceanToken == OCEAN_TOKEN_BY_CHAIN(chainId) IN
    IF oceanToken = Undef THEN << >>
    ELSE extractTransferEventsFrom(logs, 1, oceanToken)

\* Array.prototype.sort((a, b) => b.logIndex - a.logIndex): stable, descending
RECURSIVE InsertDesc(_, _)
InsertDesc(sorted, t) ==
    IF sorted = << >> THEN << t >>
    ELSE IF Head(sorted).logIndex >= t.logIndex
         THEN << Head(sorted) >> \o InsertDesc(Tail(sorted), t)
         ELSE << t >> \o sorted

\* Mutant: the transfers are left in batch order
SortByLogIndexForgotten(seq) == seq

RECURSIVE SortByLogIndexDesc(_)
SortByLogIndexDesc(seq) ==
    IF seq = << >> THEN << >>
    ELSE InsertDesc(SortByLogIndexDesc(SubSeq(seq, 1, Len(seq) - 1)), seq[Len(seq)])

\* Mutant: the pool's own transfer has no priority
findOceanRecipientViaLastOnly(swapTxHash, swapLogIndex, transferEvents, poolAddress) ==
    LET txTransfers == SelectSeq(transferEvents, LAMBDA t : t.transactionHash = swapTxHash)
        after == SortByLogIndexDesc(SelectSeq(txTransfers, LAMBDA t : t.logIndex > swapLogIndex))
    IN IF Len(after) > 0 THEN [strategy |-> "last-transfer", to |-> after[1].to]
       ELSE [strategy |-> "none", to |-> Undef]

\* Mutant: the second strategy skips the log right after the swap
findOceanRecipientViaSkippingNext(swapTxHash, swapLogIndex, transferEvents, poolAddress) ==
    LET txTransfers == SelectSeq(transferEvents, LAMBDA t : t.transactionHash = swapTxHash)
        poolTransfer == Find(txTransfers,
                             [i \in 1..Len(txTransfers) |->
                                  /\ txTransfers[i].from = toLowerCase(poolAddress)
                                  /\ txTransfers[i].logIndex > swapLogIndex])
        after == SortByLogIndexDesc(SelectSeq(txTransfers,
                                              LAMBDA t : t.logIndex > swapLogIndex + 1))
        anyTransfer == Find(txTransfers,
                            [i \in 1..Len(txTransfers) |-> txTransfers[i].logIndex > swapLogIndex])
    IN IF Len(txTransfers) = 0 THEN [strategy |-> "none", to |-> Undef]
       ELSE IF poolTransfer # Undef THEN [strategy |-> "pool-direct", to |-> poolTransfer.to]
       ELSE IF Len(after) > 0 THEN [strategy |-> "last-transfer", to |-> after[1].to]
       ELSE IF anyTransfer # Undef THEN [strategy |-> "any-transfer", to |-> anyTransfer.to]
       ELSE [strategy |-> "none", to |-> Undef]

\* The strategy of findOceanRecipient that decides, and its result
findOceanRecipientVia(swapTxHash, swapLogIndex, transferEvents, poolAddress) ==
    LET txTransfers == SelectSeq(transferEvents, LAMBDA t : t.transactionHash = swapTxHash)
        poolTransfer == Find(txTransfers,
                             [i \in 1..Len(txTransfers) |->
                                  /\ txTransfers[i].from = toLowerCase(poolAddress)
                                  /\ txTransfers[i].logIndex > swapLogIndex])
        after == SortByLogIndexDesc(SelectSeq(txTransfers, LAMBDA t : t.logIndex > swapLogIndex))
        anyTransfer == Find(txTransfers,
                            [i \in 1..Len(txTransfers) |-> txTransfers[i].logIndex > swapLogIndex])
    IN IF Len(txTransfers) = 0 THEN [strategy |-> "none", to |-> Undef]
       ELSE IF poolTransfer # Undef THEN [strategy |-> "pool-direct", to |-> poolTransfer.to]
       ELSE IF Len(after) > 0 THEN [strategy |-> "last-transfer", to |-> after[1].to]
       ELSE IF anyTransfer # Undef THEN [strategy |-> "any-transfer", to |-> anyTransfer.to]
       ELSE [strategy |-> "none", to |-> Undef]

findOceanRecipient(swapTxHash, swapLogIndex, transferEvents, poolAddress) ==
    findOceanRecipientVia(swapTxHash, swapLogIndex, transferEvents, poolAddress).to

\* ------------------------------------------------------------- core/decoder

\* new Set<number>() filled in log order: distinct chain ids, first seen first
RECURSIVE chainIdsOf(_, _, _)
chainIdsOf(logs, i, acc) ==
    IF i > Len(logs) THEN acc
    ELSE LET pool == getPoolByAddress(logs[i].address) IN
         IF pool # Undef /\ ~(\E j \in 1..Len(acc) : acc[j] = pool.chainId)
         THEN chainIdsOf(logs, i + 1, Append(acc, pool.chainId))
         ELSE chainIdsOf(logs, i + 1, acc)

RECURSIVE flatMapTransfers(_, _, _)
flatMapTransfers(chainIds, i, logs) ==
    IF i > Len(chainIds) THEN << >>
    ELSE extractTransferEvents(logs, chainIds[i]) \o flatMapTransfers(chainIds, i + 1, logs)

allTransfersOf(logs) == flatMapTransfers(chainIdsOf(logs, 1, << >>), 1, logs)

\* log.topics[0]?.toLowerCase()
firstTopic(log) == IF Len(log.topics) >= 1 THEN toLowerCase(log.topics[1]) ELSE Undef

\* The sub-decoder decodeLogs dispatches the log to, by its first topic
dispatch(log) ==
    LET topic == firstTopic(log) IN
    IF topic = toLowerCase(UNISWAP_V2_SWAP_TOPIC) THEN decodeUniswapV2Swap(log)
    ELSE IF topic = toLowerCase(UNISWAP_V3_SWAP_TOPIC) THEN decodeUniswapV3Swap(log)
    ELSE IF topic = toLowerCase(BALANCER_SWAP_TOPIC) THEN decodeBalancerV2Swap(log)
    ELSE Null

\* Mutant: the matcher's answer replaces the decoder's buyer even when it is
\* undefined
decodeOneOverwriting(log, allTransfers) ==
    LET pool == getPoolByAddress(log.address)
        event == dispatch(log)
    IN IF event # Null /\ pool # Undef
       THEN << [event EXCEPT !.buyerAddress =
                   findOceanRecipient(event.transactionHash, event.logIndex,
                                      allTransfers, pool.address)] >>
       ELSE << >>

\* One iteration of the decode loop: the events the log adds (none or one)
decodeOne(log, allTransfers) ==
    LET pool == getPoolByAddress(log.address)
        event == dispatch(log)
    IN IF event # Null /\ pool # Undef
       THEN LET actualRecipient == findOceanRecipient(event.transactionHash, event.logIndex,
                                                      allTransfers, pool.address)
            IN << IF Truthy(actualRecipient)
                  THEN [event EXCEPT !.buyerAddress = actualRecipient]
                  ELSE event >>
       ELSE << >>

RECURSIVE decodeFrom(_, _, _)
decodeFrom(logs, i, allTransfers) ==
    IF i > Len(logs) THEN << >>
    ELSE decodeOne(logs[i], allTransfers) \o decodeFrom(logs, i + 1, allTransfers)

decodeLogs(logs) == decodeFrom(logs, 1, allTransfersOf(logs))

\* ---------------------------------------------------------- core/normalizer

\* JS values of a raw payload: Undef, Null, Str/Upper strings, native
\* numbers Num(n) and numeral strings NumStr(digits) (hexadecimal digits,
\* most significant first, with or without a 0x prefix).
\* Arrays are wrapped, Arr(seq), so that every JS value is a record.
Arr(seq) == [arr |-> seq]
IsArray(x) == "arr" \in DOMAIN x

Num(n) == [t |-> "number", v |-> n]
Bool(b) == [t |-> "boolean", v |-> b]
NumStr(ds) == [t |-> "string", digits |-> ds]

IsNumber(x) == x # Undef /\ x # Null /\ "t" \in DOMAIN x /\ x.t = "number"
IsString(x) == x # Undef /\ x # Null /\ ("s" \in DOMAIN x \/ ("t" \in DOMAIN x /\ x.t = "string"))

\* JS falsiness: undefined, null, '', 0
Falsy(x) ==
    x = Undef \/ x = Null \/ x = Str("") \/ x = Num(0) \/ x = NumStr(<< >>) \/ x = Bool(FALSE)

NaN == -1

RECURSIVE HexValue(_)
HexValue(ds) == IF ds = << >> THEN 0 ELSE HexValue(SubSeq(ds, 1, Len(ds) - 1)) * 16 + ds[Len(ds)]

\* parseInt(str, 16); NaN when there is no digit
parseInt16(x) == IF x.digits = << >> THEN NaN ELSE HexValue(x.digits)

RawLog(address, topics, data, transactionHash, logIndex, blockNumber, removed) ==
    [address |-> address, account |-> Undef,
     topics |-> Arr(topics), topic0 |-> Undef, topic1 |-> Undef, topic2 |-> Undef, topic3 |-> Undef,
     data |-> Arr(data), transactionHash |-> transactionHash, transaction |-> Undef,
     logIndex |-> logIndex, index |-> Undef, blockNumber |-> blockNumber,
     removed |-> Bool(removed)]

\* payload.logs || payload.txs?.[0]?.logs || payload.event?.data?.block?.logs || []
pickLogs(payload) ==
    IF ~Falsy(payload.logs) THEN payload.logs
    ELSE IF IsArray(payload.txs) /\ Len(payload.txs.arr) >= 1 /\ ~Falsy(payload.txs.arr[1].logs)
         THEN payload.txs.arr[1].logs
    ELSE IF payload.block # Undef /\ ~Falsy(payload.block.logs) THEN payload.block.logs
    ELSE Arr(<< >>)

\* Mutant: the scalar topics are put in the array as they are, empty slots included
normalizeTopicsKeepingSlots(log) ==
    LET scalars == << log.topic0, log.topic1, log.topic2, log.topic3 >>
        topics == IF Falsy(log.topics) /\ ~Falsy(log.topic0) THEN Arr(scalars) ELSE log.topics
    IN IF Falsy(topics) THEN << >> ELSE topics.arr

normalizeTopics(log) ==
    LET scalars == << log.topic0, log.topic1, log.topic2, log.topic3 >>
        topics == IF Falsy(log.topics) /\ ~Falsy(log.topic0)
                  THEN Arr(SelectSeq(scalars, LAMBDA x : x # Null /\ x # Undef))
                  ELSE log.topics
    IN IF Falsy(topics) THEN << >> ELSE topics.arr

\* Mutant: the parent block's number replaces the log's own
normalizeBlockNumberParentFirst(log, alchemyBlockNumber) ==
    LET blockNumber == IF ~Falsy(alchemyBlockNumber) THEN alchemyBlockNumber ELSE log.blockNumber
    IN IF IsString(blockNumber) THEN parseInt16(blockNumber)
       ELSE IF IsNumber(blockNumber) THEN blockNumber.v
       ELSE 0

normalizeBlockNumber(log, alchemyBlockNumber) ==
    LET blockNumber == IF Falsy(log.blockNumber) /\ ~Falsy(alchemyBlockNumber)
                       THEN alchemyBlockNumber ELSE log.blockNumber
    IN IF IsString(blockNumber) THEN parseInt16(blockNumber)
       ELSE IF IsNumber(blockNumber) THEN blockNumber.v
       ELSE 0

normalizeLogIndex(log) ==
    IF IsString(log.logIndex) THEN parseInt16(log.logIndex)
    ELSE IF IsNumber(log.index) THEN log.index.v
    ELSE parseInt16(IF Falsy(log.index) THEN NumStr(<< 0 >>) ELSE log.index)

normalizeOne(log, alchemyBlockNumber) ==
    LET address == IF ~Falsy(log.address) THEN log.address
                   ELSE IF log.account # Undef /\ ~Falsy(log.account.address) THEN log.account.address
                   ELSE Str("")
        txHash == IF ~Falsy(log.transactionHash) THEN log.transactionHash
                  ELSE IF log.transaction # Undef THEN log.transaction.hash
                  ELSE Undef
        from == IF log.transaction # Undef /\ ~Falsy(log.transaction.from)
                THEN toLowerCase(log.transaction.from) ELSE Str("")
    IN [address |-> toLowerCase(address),
        topics |-> normalizeTopics(log),
        data |-> IF IsArray(log.data) THEN log.data.arr ELSE << >>,
        transactionHash |-> txHash,
        transactionFrom |-> IF Falsy(from) THEN Undef ELSE from,
        logIndex |-> normalizeLogIndex(log),
        blockNumber |-> normalizeBlockNumber(log, alchemyBlockNumber),
        \* log.removed || false; only its truthiness is read downstream
        removed |-> ~Falsy(log.removed)]

\* A payload or an entry that is an object: a record of the fields the
\* normalizer reads, those it lacks being Undef. Any other value but null and
\* undefined is a primitive, all of whose properties read as undefined.
IsPayloadObject(payload) == "logs" \in DOMAIN payload

IsLogObject(log) == "address" \in DOMAIN log

AbsentLog ==
    [address |-> Undef, account |-> Undef,
     topics |-> Undef, topic0 |-> Undef, topic1 |-> Undef, topic2 |-> Undef, topic3 |-> Undef,
     data |-> Undef, transactionHash |-> Undef, transaction |-> Undef,
     logIndex |-> Undef, index |-> Undef, blockNumber |-> Undef, removed |-> Undef]

\* The callback of logs.map throws a TypeError: a property of null or
\* undefined is read, or toLowerCase is called on an address that is no string
mapCallbackThrows(log) ==
    \/ log = Null
    \/ log = Undef
    \/ /\ IsLogObject(log)
       /\ LET address == IF ~Falsy(log.address) THEN log.address
                          ELSE IF log.account # Undef /\ ~Falsy(log.account.address)
                               THEN log.account.address
                          ELSE Str("")
          IN "s" \notin DOMAIN address

\* The try block of normalizeLogs: what it returns, or that it threw
tryNormalize(payload) ==
    IF payload = Null \/ payload = Undef THEN [threw |-> TRUE, value |-> << >>]
    ELSE IF ~IsPayloadObject(payload) THEN [threw |-> FALSE, value |-> << >>]
    ELSE
    LET logs == pickLogs(payload)
        alchemyBlockNumber == IF payload.block # Undef THEN payload.block.number ELSE Undef
    IN IF ~IsArray(logs) THEN [threw |-> TRUE, value |-> << >>]
       ELSE IF \E i \in 1..Len(logs.arr) : mapCallbackThrows(logs.arr[i])
            THEN [threw |-> TRUE, value |-> << >>]
       ELSE [threw |-> FALSE,
             value |-> [i \in 1..Len(logs.arr) |->
                           normalizeOne(IF IsLogObject(logs.arr[i]) THEN logs.arr[i] ELSE AbsentLog,
                                        alchemyBlockNumber)]]

\* Mutant: no catch block
normalizeLogsUncaught(payload) ==
    LET tried == tryNormalize(payload)
    IN [raised |-> tried.threw, value |-> tried.value]

\* How a call of normalizeLogs ends: whether it raises, and what it returns
normalizeLogsCall(payload) ==
    LET tried == tryNormalize(payload)
    IN [raised |-> FALSE, value |-> IF tried.threw THEN << >> ELSE tried.value]

normalizeLogs(payload) == normalizeLogsCall(payload).value

\* A flat-shape body { logs: [...] }
FlatPayload(logs) == [logs |-> Arr(logs), txs |-> Undef, block |-> Undef]

\* ---------------------------------------------------------------- utils/set

\* Capacity and time-to-live of the DedupeSet built by DedupeManager
\* (2000 entries and 7200000 ms in the source), scaled down to the sizes the
\* model explores; time advances in ticks of one TTL unit.
MaxSize == 2
Ttl == 1

\* lru-cache: the entries, least recently used first, each with the time its
\* TTL started.
indexOfKey(cache, key) ==
    IF \E i \in 1..Len(cache) : cache[i].key = key
    THEN CHOOSE i \in 1..Len(cache) : cache[i].key = key
    ELSE 0

\* Mutant: entries never expire
isStaleNever(entry, t) == FALSE

isStale(entry, t) == t - entry.start > Ttl

\* LRUCache.has: present and not stale (recency is not updated)
has(cache, key, t) ==
    LET i == indexOfKey(cache, key) IN i # 0 /\ ~isStale(cache[i], t)

withoutKey(cache, key) == SelectSeq(cache, LAMBDA e : e.key # key)

\* Mutant: a new key evicts the most recently used entry of a full cache
addEvictingNewest(cache, key, t) ==
    IF indexOfKey(cache, key) # 0
    THEN Append(withoutKey(cache, key), [key |-> key, start |-> t])
    ELSE IF Len(cache) >= MaxSize
         THEN Append(SubSeq(cache, 1, Len(cache) - 1), [key |-> key, start |-> t])
         ELSE Append(cache, [key |-> key, start |-> t])

\* LRUCache.set: an existing key is refreshed and becomes most recently
\* used; a new key evicts the least recently used entry of a full cache.
add(cache, key, t) ==
    IF indexOfKey(cache, key) # 0
    THEN Append(withoutKey(cache, key), [key |-> key, start |-> t])
    ELSE IF Len(cache) >= MaxSize
         THEN Append(Tail(cache), [key |-> key, start |-> t])
         ELSE Append(cache, [key |-> key, start |-> t])

\* LRUCache.delete
delete(cache, key) == withoutKey(cache, key)

\* -------------------------------------------------------------- core/dedupe

\* `${txHash}:${logIndex}`
makeKey(txHash, logIndex) == [tx |-> txHash, idx |-> logIndex]

\* Mutant: no key is ever reported as a duplicate
isDuplicateNever(cache, txHash, logIndex, t) == FALSE

isDuplicate(cache, txHash, logIndex, t) == has(cache, makeKey(txHash, logIndex), t)

\* Mutant: the key is not recorded
markSeenForgetting(cache, txHash, logIndex, t) == cache

markSeen(cache, txHash, logIndex, t) == add(cache, makeKey(txHash, logIndex), t)

\* Mutant: the reorg signal empties the guard
handleReorgClearing(cache, txHash, logIndex) == << >>

\* Mutant: the reorg signal is ignored
handleReorgIgnored(cache, txHash, logIndex) == cache

handleReorg(cache, txHash, logIndex) == delete(cache, makeKey(txHash, logIndex))

\* ------------------------------------------------------------- utils/bigint

\* OCEAN_TOKEN.decimals (18 in the source), scaled down so that amounts fit
\* the model checker's integers.
Decimals == 2
Divisor == 10 ^ Decimals

\* The significant bits of a floating-point number (53 for the doubles of the
\* code, whose divisor 10^18 exceeds 2^53 as Divisor exceeds 2^MantissaBits)
MantissaBits == 6

\* BigInt.prototype.toString of a non-negative value: its decimal digits
RECURSIVE bigintToString(_)
bigintToString(n) ==
    LET digit == SubSeq("0123456789", (n % 10) + 1, (n % 10) + 1)
    IN IF n < 10 THEN digit ELSE bigintToString(n \div 10) \o digit

\* String.prototype.padStart with a one-character pad
RECURSIVE padStart(_, _, _)
padStart(str, targetLength, padString) ==
    IF Len(str) >= targetLength THEN str
    ELSE padStart(padString \o str, targetLength, padString)

\* String.prototype.slice(0, n) and slice(-n)
sliceFirst(str, n) == IF Len(str) <= n THEN str ELSE SubSeq(str, 1, n)
sliceLast(str, n) == IF Len(str) <= n THEN str ELSE SubSeq(str, Len(str) - n + 1, Len(str))

\* replace(/\B(?=(\d{3})+(?!\d))/g, ','): a comma at every place inside the
\* digits that has a multiple of three digits after it
RECURSIVE withSeparatorsFrom(_, _)
withSeparatorsFrom(str, i) ==
    IF i > Len(str) THEN ""
    ELSE SubSeq(str, i, i)
         \o (IF i < Len(str) /\ (Len(str) - i) % 3 = 0 THEN "," ELSE "")
         \o withSeparatorsFrom(str, i + 1)

\* Mutant: the whole part is written without separators
formatOceanUngrouped(amount) ==
    LET whole == amount \div Divisor
        remainder == amount % Divisor
        fractional == padStart(bigintToString(remainder), Decimals, "0")
        trimmedFractional == sliceFirst(fractional, 2)
        wholeStr == bigintToString(whole)
    IN IF trimmedFractional = "00" \/ trimmedFractional = "" THEN wholeStr
       ELSE wholeStr \o "." \o trimmedFractional

\* formatOcean: the whole part with thousands separators and the first two
\* fractional digits, the fraction dropped when those digits are 00
formatOcean(amount) ==
    LET whole == amount \div Divisor
        remainder == amount % Divisor
        fractional == padStart(bigintToString(remainder), Decimals, "0")
        trimmedFractional == sliceFirst(fractional, 2)
        wholeStr == withSeparatorsFrom(bigintToString(whole), 1)
    IN IF trimmedFractional = "00" \/ trimmedFractional = "" THEN wholeStr
       ELSE wholeStr \o "." \o trimmedFractional

\* The spacing of the floating-point numbers around n: a number keeps
\* MantissaBits significant bits
RECURSIVE Ulp(_)
Ulp(n) == IF n < 2 ^ MantissaBits THEN 1 ELSE 2 * Ulp(n \div 2)

\* Number(bigint): the nearest floating-point number, ties to the even mantissa
Number(n) ==
    LET u == Ulp(n)
        below == (n \div u) * u
    IN IF 2 * (n - below) < u THEN below
       ELSE IF 2 * (n - below) > u THEN below + u
       ELSE IF (n \div u) % 2 = 0 THEN below
       ELSE below + u

\* oceanToNumber, as the numerator of a fraction over Divisor (Divisor is a
\* floating-point number itself; the quotient and the sum are taken exactly)
oceanToNumber(amount) ==
    LET whole == Number(amount \div Divisor)
        remainder == Number(amount % Divisor)
    IN whole * Divisor + remainder

\* ---------------------------------------------------------- core/classifier

\* env.MIN_OCEAN_ALERT (default)
MIN_OCEAN_ALERT == 1

BLOCK_EXPLORERS(chainId) ==
    IF chainId = 1 THEN "https://etherscan.io/tx/"
    ELSE IF chainId = 137 THEN "https://polygonscan.com/tx/"
    ELSE "https://etherscan.io/tx/"

getExplorerUrl(chainId, txHash) == [base |-> BLOCK_EXPLORERS(chainId), tx |-> txHash]

\* `${address.slice(0, 6)}...${address.slice(-4)}`
shortenAddress(address) ==
    [address EXCEPT !.s = sliceFirst(address.s, 6) \o "..." \o sliceLast(address.s, 4)]

\* Mutant: a purchase of exactly the threshold is dropped too
classifyOneAboveOnly(event, minOceanAlert, price, walletStatus) ==
    IF ~event.isBuy THEN << >>
    ELSE IF oceanToNumber(event.oceanAmount) <= minOceanAlert * Divisor THEN << >>
    ELSE
    LET hasBuyer == Truthy(event.buyerAddress)
        enriched == hasBuyer /\ walletStatus # Null
    IN << [oceanAmount |-> event.oceanAmount,
           oceanFormatted |-> formatOcean(event.oceanAmount),
           chainName |-> event.chainName,
           dex |-> event.dex,
           poolLabel |-> event.poolLabel,
           txHash |-> event.transactionHash,
           txUrl |-> getExplorerUrl(event.chainId, event.transactionHash),
           usdValue |-> IF price # Null THEN Num(oceanToNumber(event.oceanAmount) * price.v) ELSE Undef,
           buyerAddress |-> IF hasBuyer THEN event.buyerAddress ELSE Undef,
           buyerShort |-> IF hasBuyer THEN shortenAddress(event.buyerAddress) ELSE Undef,
           isNewHolder |-> IF enriched THEN Bool(walletStatus.previousBalance = 0) ELSE Undef,
           previousBalance |-> IF enriched THEN Num(walletStatus.previousBalance) ELSE Undef,
           newBalance |-> IF enriched THEN Num(walletStatus.newBalance) ELSE Undef,
           \* history, not a field of BuyAlert: the swap the alert comes from
           ofLogIndex |-> event.logIndex,
           ofRemoved |-> event.removed] >>

\* Mutant: a purchase whose buyer's balances cannot be read is dropped
classifyOneNeedingBalance(event, minOceanAlert, price, walletStatus) ==
    IF ~event.isBuy THEN << >>
    ELSE IF oceanToNumber(event.oceanAmount) < minOceanAlert * Divisor THEN << >>
    ELSE IF Truthy(event.buyerAddress) /\ walletStatus = Null THEN << >>
    ELSE
    LET hasBuyer == Truthy(event.buyerAddress)
        enriched == hasBuyer /\ walletStatus # Null
    IN << [oceanAmount |-> event.oceanAmount,
           oceanFormatted |-> formatOcean(event.oceanAmount),
           chainName |-> event.chainName,
           dex |-> event.dex,
           poolLabel |-> event.poolLabel,
           txHash |-> event.transactionHash,
           txUrl |-> getExplorerUrl(event.chainId, event.transactionHash),
           usdValue |-> IF price # Null THEN Num(oceanToNumber(event.oceanAmount) * price.v) ELSE Undef,
           buyerAddress |-> IF hasBuyer THEN event.buyerAddress ELSE Undef,
           buyerShort |-> IF hasBuyer THEN shortenAddress(event.buyerAddress) ELSE Undef,
           isNewHolder |-> IF enriched THEN Bool(walletStatus.previousBalance = 0) ELSE Undef,
           previousBalance |-> IF enriched THEN Num(walletStatus.previousBalance) ELSE Undef,
           newBalance |-> IF enriched THEN Num(walletStatus.newBalance) ELSE Undef,
           \* history, not a field of BuyAlert: the swap the alert comes from
           ofLogIndex |-> event.logIndex,
           ofRemoved |-> event.removed] >>

\* One iteration of classifyBuys: the alerts the event adds (none or one).
\* price is the price oracle's answer (Null when unavailable) and
\* walletStatus the balance oracle's (Null when unavailable or failing).
classifyOne(event, minOceanAlert, price, walletStatus) ==
    IF ~event.isBuy THEN << >>
    ELSE IF oceanToNumber(event.oceanAmount) < minOceanAlert * Divisor THEN << >>
    ELSE
    LET hasBuyer == Truthy(event.buyerAddress)
        enriched == hasBuyer /\ walletStatus # Null
    IN << [oceanAmount |-> event.oceanAmount,
           oceanFormatted |-> formatOcean(event.oceanAmount),
           chainName |-> event.chainName,
           dex |-> event.dex,
           poolLabel |-> event.poolLabel,
           txHash |-> event.transactionHash,
           txUrl |-> getExplorerUrl(event.chainId, event.transactionHash),
           usdValue |-> IF price # Null THEN Num(oceanToNumber(event.oceanAmount) * price.v) ELSE Undef,
           buyerAddress |-> IF hasBuyer THEN event.buyerAddress ELSE Undef,
           buyerShort |-> IF hasBuyer THEN shortenAddress(event.buyerAddress) ELSE Undef,
           isNewHolder |-> IF enriched THEN Bool(walletStatus.previousBalance = 0) ELSE Undef,
           previousBalance |-> IF enriched THEN Num(walletStatus.previousBalance) ELSE Undef,
           newBalance |-> IF enriched THEN Num(walletStatus.newBalance) ELSE Undef,
           \* history, not a field of BuyAlert: the swap the alert comes from
           ofLogIndex |-> event.logIndex,
           ofRemoved |-> event.removed] >>

\* walletStatuses[i] is what getWalletStatus answers when asked for events[i]
RECURSIVE classifyFrom(_, _, _, _, _)
classifyFrom(events, i, minOceanAlert, price, walletStatuses) ==
    IF i > Len(events) THEN << >>
    ELSE classifyOne(events[i], minOceanAlert, price, walletStatuses[i])
         \o classifyFrom(events, i + 1, minOceanAlert, price, walletStatuses)

\* Mutant: the alerts are returned last purchase first
classifyBuysReversed(events, minOceanAlert, price, walletStatuses) ==
    LET forward == classifyFrom(events, 1, minOceanAlert, price, walletStatuses)
    IN [i \in 1..Len(forward) |-> forward[Len(forward) + 1 - i]]

classifyBuys(events, minOceanAlert, price, walletStatuses) ==
    classifyFrom(events, 1, minOceanAlert, price, walletStatuses)

\* ------------------------------------------------------------------ bounds

NumDeliveries == 2
MaxPayload == 2
MaxLogIndex == 2
MaxTime == 2

Deliveries == 1..NumDeliveries

\* ------------------------------------------------------- webhook payloads

TX1 == Str("0xtx1")
ROUTER == Str("0xrouter")
ALICE == Str("0xalice")
BOB == Str("0xbob")

\* A constant-product swap log of the OCEAN/WETH pool, as a provider sends it
V2SwapLog(idx, removed, oceanIn, oceanOut) ==
    RawLog(V2_POOL_ADDRESS, << UNISWAP_V2_SWAP_TOPIC, ROUTER, ALICE >>,
           << oceanIn, 0, oceanOut, 0 >>, TX1, NumStr(<< idx >>), Num(100), removed)

\* Under the last key a purchase of half the alert threshold, under every
\* other key a purchase at the threshold, and the reorg removal of the first.
PipelineLogs ==
    { V2SwapLog(idx, FALSE, 0, Divisor * MIN_OCEAN_ALERT) : idx \in 0..(MaxLogIndex - 1) }
    \cup { V2SwapLog(0, TRUE, 0, Divisor * MIN_OCEAN_ALERT),
           V2SwapLog(MaxLogIndex, FALSE, 0, (Divisor * MIN_OCEAN_ALERT) \div 2) }

Payloads ==
    { FlatPayload(logs) :
          logs \in UNION { [1..n -> PipelineLogs] : n \in 0..MaxPayload } }

NoBody == [none |-> TRUE]

KeyUniverse ==
    { makeKey(l.transactionHash, l.logIndex) :
          l \in { normalizeOne(raw, Undef) : raw \in PipelineLogs } }

\* -------------------------------------------------------------------- state

VARIABLES
    cache,          \* DedupeSet.cache of the module-level dedupeManager
    now,            \* the clock the cache reads
    pc,             \* per delivery: where handleWebhook stands
    body,           \* per delivery: req.body
    rawEvents,      \* per delivery: `events`, the swap events decodeLogs returned
    uniqueEvents,   \* per delivery: the events that passed the dedupe loop
    buys,           \* per delivery: the list classifyBuys returned
    handed,         \* per delivery: broadcastBuyAlert calls that returned
    response,       \* per delivery: the HTTP response sent
    gone,           \* history, per key: why the key left the guard since it was last marked
    seen,           \* history: the keys ever marked
    overlap,        \* history, per delivery: the deliveries in flight when it arrived
    batch,          \* decoder check: the canonical logs given to decodeLogs
    decoded,        \* decoder check: what decodeLogs returned
    stage,          \* function checks: "input", then "decoded", "classified" or "normalized"
    offered,        \* classifier check: the swap events given to classifyBuys
    oracles,        \* classifier check: what the price and balance oracles answer
    alerts,         \* classifier check: what classifyBuys returned
    webhookBody,    \* normalizer check: the payload given to normalizeLogs
    canonical,      \* normalizer check: what normalizeLogs returned
    calls,          \* guard check: history of the calls made on the guard
    env,            \* bot: the settings read from the environment
    configs,        \* bot: ConfigManager.store.chats, in insertion order
    blacklist,      \* bot: BlacklistService.blacklist
    batchQueue,     \* bot: TelegramClient.batchQueue, per chat
    sent,           \* bot: the bot.sendMessage calls of the last step
    incoming,       \* bot: the request or chat message the last step handled
    batchTimers,    \* bot: TelegramClient.batchTimers, per chat the time the timer is due
    sending,        \* bot: bot.sendMessage calls of flushes that have not settled yet
    retry,          \* services: the running retryWithBackoff call
    monitor,        \* services: the state of XMonitorService and XAccountsService
    togglers        \* services: the running BlacklistService.toggle calls

vars == << cache, now, pc, body, rawEvents, uniqueEvents, buys, handed, response, gone, seen,
           overlap, batch, decoded, stage, offered, oracles, alerts, webhookBody, canonical,
           calls, env, configs, blacklist, batchQueue, sent, incoming, batchTimers, sending,
           retry, monitor, togglers >>

pipelineVars == << cache, now, pc, body, rawEvents, uniqueEvents, buys, handed, response, gone,
                   seen, overlap >>

decoderVars == << batch, decoded, stage >>

classifierVars == << offered, oracles, alerts >>

normalizerVars == << webhookBody, canonical >>

guardVars == << calls >>

botVars == << env, configs, blacklist, batchQueue, sent, incoming, batchTimers, sending >>

serviceVars == << retry, monitor, togglers >>

\* The function checks when they are not running
DecoderAtRest == batch = << >> /\ decoded = << >>

ClassifierAtRest == offered = << >> /\ oracles = << >> /\ alerts = << >>

NormalizerAtRest == webhookBody = Undef /\ canonical = << >>

GuardAtRest == calls = << >>

ServicesAtRest == retry = Undef /\ monitor = Undef /\ togglers = << >>

BotAtRest ==
    /\ env = Undef
    /\ configs = << >>
    /\ blacklist = {}
    /\ batchQueue = << >>
    /\ sent = << >>
    /\ incoming = Undef
    /\ batchTimers = << >>
    /\ sending = << >>

NoResponse == [status |-> 0, processed |-> 0]

\* ------------------------------------------------ providers/webhook: dedupe

\* The key a full cache drops when `key` is inserted, if any
evictedBy(c, key) ==
    IF indexOfKey(c, key) = 0 /\ Len(c) >= MaxSize /\ Len(c) > 0 THEN { c[1].key } ELSE {}

\* Mutant: the removed event evicts its key but is not skipped
dedupeOneKeepingRemoved(event, st, t) ==
    LET key == makeKey(event.transactionHash, event.logIndex)
        c == IF event.removed
             THEN handleReorg(st.cache, event.transactionHash, event.logIndex)
             ELSE st.cache
    IN IF ~event.removed /\ isDuplicate(c, event.transactionHash, event.logIndex, t)
       THEN st
       ELSE [cache |-> markSeen(c, event.transactionHash, event.logIndex, t),
             unique |-> Append(st.unique, [event |-> event, admitted |-> {"new"}]),
             seen |-> st.seen \cup {key},
             gone |-> st.gone]

\* One iteration of the loop that filters duplicates and reorgs. st holds the
\* cache, the events kept so far and the history of the keys.
dedupeOne(event, st, t) ==
    LET key == makeKey(event.transactionHash, event.logIndex) IN
    IF event.removed
    THEN [st EXCEPT !.cache = handleReorg(st.cache, event.transactionHash, event.logIndex),
                    !.gone = [k \in DOMAIN st.gone |->
                                 IF k = key THEN st.gone[k] \cup {"reorg"} ELSE st.gone[k]]]
    ELSE IF isDuplicate(st.cache, event.transactionHash, event.logIndex, t)
    THEN st
    ELSE
    LET admitted == IF key \notin st.seen THEN {"new"}
                    ELSE st.gone[key] \cup
                         (IF indexOfKey(st.cache, key) # 0
                             /\ isStale(st.cache[indexOfKey(st.cache, key)], t)
                          THEN {"ttl"} ELSE {})
        evicted == evictedBy(st.cache, key)
    IN [cache |-> markSeen(st.cache, event.transactionHash, event.logIndex, t),
        unique |-> Append(st.unique, [event |-> event, admitted |-> admitted]),
        seen |-> st.seen \cup {key},
        gone |-> [k \in DOMAIN st.gone |->
                     IF k = key THEN {}
                     ELSE IF k \in evicted THEN st.gone[k] \cup {"lru"}
                     ELSE st.gone[k]]]

RECURSIVE dedupeFrom(_, _, _, _)
dedupeFrom(events, i, st, t) ==
    IF i > Len(events) THEN st
    ELSE dedupeFrom(events, i + 1, dedupeOne(events[i], st, t), t)

dedupeLoop(events, c, g, s, t) ==
    dedupeFrom(events, 1, [cache |-> c, unique |-> << >>, seen |-> s, gone |-> g], t)

eventsOf(kept) == [i \in 1..Len(kept) |-> kept[i].event]

\* ------------------------------------------------------- handleWebhook

InFlight(d) == pc[d] \in {"classify", "notify"}

\* The request body normalizes to no log: 200 with processed = 0
ReceiveEmpty(d, p) ==
    /\ pc[d] = "idle"
    /\ Len(normalizeLogs(p)) = 0
    /\ pc' = [pc EXCEPT ![d] = "done"]
    /\ body' = [body EXCEPT ![d] = p]
    /\ response' = [response EXCEPT ![d] = [status |-> 200, processed |-> 0]]
    /\ overlap' = [overlap EXCEPT ![d] = { e \in Deliveries : InFlight(e) }]
    /\ UNCHANGED << cache, now, rawEvents, uniqueEvents, buys, handed, gone, seen, decoderVars, classifierVars,
                    normalizerVars, guardVars, botVars, serviceVars >>

\* normalize, decode and the dedupe loop run without suspension, up to the
\* await of classifyBuys
Receive(d, p) ==
    /\ pc[d] = "idle"
    /\ Len(normalizeLogs(p)) > 0
    /\ LET decodedEvents == decodeLogs(normalizeLogs(p))
           st == dedupeLoop(decodedEvents, cache, gone, seen, now)
       IN /\ rawEvents' = [rawEvents EXCEPT ![d] = decodedEvents]
          /\ cache' = st.cache
          /\ gone' = st.gone
          /\ seen' = st.seen
          /\ uniqueEvents' = [uniqueEvents EXCEPT ![d] = st.unique]
    /\ pc' = [pc EXCEPT ![d] = "classify"]
    /\ body' = [body EXCEPT ![d] = p]
    /\ overlap' = [overlap EXCEPT ![d] = { e \in Deliveries : InFlight(e) }]
    /\ UNCHANGED << now, buys, handed, response, decoderVars, classifierVars,
                    normalizerVars, guardVars, botVars, serviceVars >>

\* What priceService.getOceanPrice and balanceService.getWalletStatus
\* resolve to during one classifyBuys: both fail (null) or both answer
OracleAnswers ==
    { [price |-> Null, walletStatus |-> Null],
      [price |-> Num(2), walletStatus |-> [previousBalance |-> 0, newBalance |-> Divisor]] }

\* classifyBuys resolves, with the oracles' answers
Classify(d, answers) ==
    /\ pc[d] = "classify"
    /\ buys' = [buys EXCEPT ![d] =
                   classifyBuys(eventsOf(uniqueEvents[d]), MIN_OCEAN_ALERT, answers.price,
                                [i \in 1..Len(uniqueEvents[d]) |-> answers.walletStatus])]
    /\ pc' = [pc EXCEPT ![d] = "notify"]
    /\ UNCHANGED << cache, now, body, rawEvents, uniqueEvents, handed, response, gone, seen, overlap,
                    decoderVars, classifierVars,
                    normalizerVars, guardVars, botVars, serviceVars >>

\* telegramClient.broadcastBuyAlert(buy) returns for the next alert
Notify(d) ==
    /\ pc[d] = "notify"
    /\ handed[d] < Len(buys[d])
    /\ handed' = [handed EXCEPT ![d] = handed[d] + 1]
    /\ UNCHANGED << cache, now, pc, body, rawEvents, uniqueEvents, buys, response, gone, seen, overlap,
                    decoderVars, classifierVars,
                    normalizerVars, guardVars, botVars, serviceVars >>

\* broadcastBuyAlert throws for the next alert (the blacklist lookup of an
\* alert with a buyer address fails): the catch block answers 500
NotifyFail(d) ==
    /\ pc[d] = "notify"
    /\ handed[d] < Len(buys[d])
    /\ Truthy(buys[d][handed[d] + 1].buyerAddress)
    /\ pc' = [pc EXCEPT ![d] = "failed"]
    /\ response' = [response EXCEPT ![d] = [status |-> 500, processed |-> 0]]
    /\ UNCHANGED << cache, now, body, rawEvents, uniqueEvents, buys, handed, gone, seen, overlap,
                    decoderVars, classifierVars,
                    normalizerVars, guardVars, botVars, serviceVars >>

\* Mutant: the response does not wait for the broadcast loop
RespondEarly(d) ==
    /\ pc[d] = "notify"
    /\ pc' = [pc EXCEPT ![d] = "done"]
    /\ response' = [response EXCEPT ![d] = [status |-> 200, processed |-> Len(buys[d])]]
    /\ UNCHANGED << cache, now, body, rawEvents, uniqueEvents, buys, handed, gone, seen, overlap,
                    decoderVars, classifierVars,
                    normalizerVars, guardVars, botVars, serviceVars >>

\* every alert was handed over: 200 with processed = buys.length
Respond(d) ==
    /\ pc[d] = "notify"
    /\ handed[d] = Len(buys[d])
    /\ pc' = [pc EXCEPT ![d] = "done"]
    /\ response' = [response EXCEPT ![d] = [status |-> 200, processed |-> Len(buys[d])]]
    /\ UNCHANGED << cache, now, body, rawEvents, uniqueEvents, buys, handed, gone, seen, overlap,
                    decoderVars, classifierVars,
                    normalizerVars, guardVars, botVars, serviceVars >>

\* Time passes
Tick ==
    /\ now < MaxTime
    /\ now' = now + 1
    /\ UNCHANGED << cache, pc, body, rawEvents, uniqueEvents, buys, handed, response, gone, seen,
                    overlap, decoderVars, classifierVars,
                    normalizerVars, guardVars, botVars, serviceVars >>

Init ==
    /\ cache = << >>
    /\ now = 0
    /\ pc = [d \in Deliveries |-> "idle"]
    /\ body = [d \in Deliveries |-> NoBody]
    /\ rawEvents = [d \in Deliveries |-> << >>]
    /\ uniqueEvents = [d \in Deliveries |-> << >>]
    /\ buys = [d \in Deliveries |-> << >>]
    /\ handed = [d \in Deliveries |-> 0]
    /\ response = [d \in Deliveries |-> NoResponse]
    /\ gone = [k \in KeyUniverse |-> {}]
    /\ seen = {}
    /\ overlap = [d \in Deliveries |-> {}]
    /\ DecoderAtRest
    /\ stage = "off"
    /\ ClassifierAtRest
    /\ NormalizerAtRest
    /\ GuardAtRest
    /\ BotAtRest
    /\ ServicesAtRest

Next ==
    \/ \E d \in Deliveries, p \in Payloads : ReceiveEmpty(d, p)
    \/ \E d \in Deliveries, p \in Payloads : Receive(d, p)
    \/ \E d \in Deliveries, answers \in OracleAnswers : Classify(d, answers)
    \/ \E d \in Deliveries : Notify(d)
    \/ \E d \in Deliveries : NotifyFail(d)
    \/ \E d \in Deliveries : Respond(d)
    \/ Tick

Spec == Init /\ [][Next]_vars

\* ------------------------------------------------- decodeLogs on its own

MaxAmount == 2
MaxTransfers == 2
MaxTransferIndex == 3

TX2 == Str("0xtx2")
CAROL == Str("0xcarol")
DAVE == Str("0xdave")

DexLog(address, topics, data, transactionHash, logIndex, removed) ==
    [address |-> address, topics |-> topics, data |-> data,
     transactionHash |-> transactionHash, transactionFrom |-> Undef,
     logIndex |-> logIndex, blockNumber |-> 100, removed |-> removed]

Amounts == 0..MaxAmount
SignedAmounts == (0 - MaxAmount)..MaxAmount

\* Swap logs of the two constant-product pools (OCEAN is token0 of one and
\* token1 of the other) and of a concentrated-liquidity pool, any amounts
V2SwapLogs ==
    { DexLog(pool, << UNISWAP_V2_SWAP_TOPIC, ROUTER, Upper("0xalice") >>,
             << a0In, a1In, a0Out, a1Out >>, TX1, 1, FALSE) :
          pool \in { V2_POOL_ADDRESS, QUICKSWAP_POOL_ADDRESS },
          a0In \in Amounts, a1In \in Amounts, a0Out \in Amounts, a1Out \in Amounts }

V3SwapLogs ==
    { DexLog(V3_POOL_ADDRESS, << UNISWAP_V3_SWAP_TOPIC, ROUTER, Upper("0xalice") >>,
             << amount0, amount1, 7, 7, 7 >>, TX1, 1, FALSE) :
          amount0 \in SignedAmounts, amount1 \in SignedAmounts }

\* The swaps the transfers are matched with: a purchase and a sale on the
\* constant-product pool, a purchase on the concentrated-liquidity pool, each
\* with the router as native recipient, and a vault-style purchase sent by
\* DAVE and carrying the registered pool's address; all at log index 1 of TX1
CorrelatedSwaps ==
    { DexLog(V2_POOL_ADDRESS, << UNISWAP_V2_SWAP_TOPIC, ROUTER, ROUTER >>,
             << 0, 1, 2, 0 >>, TX1, 1, FALSE),
      DexLog(V2_POOL_ADDRESS, << UNISWAP_V2_SWAP_TOPIC, ROUTER, ROUTER >>,
             << 2, 0, 0, 1 >>, TX1, 1, FALSE),
      DexLog(V3_POOL_ADDRESS, << UNISWAP_V3_SWAP_TOPIC, ROUTER, ROUTER >>,
             << 0 - 2, 1, 7, 7, 7 >>, TX1, 1, FALSE),
      [ DexLog(BALANCER_POOL_ADDRESS,
               << BALANCER_SWAP_TOPIC, BALANCER_POOL_ID, WETH, OCEAN_MAINNET >>,
               << 1, 2 >>, TX1, 1, FALSE) EXCEPT !.transactionFrom = DAVE ] }

\* Transfer logs of the monitored token, from a pool or from the router
TransferLogs ==
    { DexLog(OCEAN_MAINNET, << TRANSFER_TOPIC, from, to >>, << 2 >>, tx, idx, FALSE) :
          from \in { V2_POOL_ADDRESS, ROUTER },
          to \in { BOB, CAROL },
          tx \in { TX1, TX2 },
          idx \in 0..MaxTransferIndex }

\* seq with x inserted at place i
InsertAt(seq, i, x) == SubSeq(seq, 1, i - 1) \o << x >> \o SubSeq(seq, i, Len(seq))

\* The batch is one swap log of any amounts, or one of the correlated swaps
\* among up to MaxTransfers transfers
InitDecode ==
    /\ \/ \E l \in V2SwapLogs \cup V3SwapLogs : batch = << l >>
       \/ \E n \in 0..MaxTransfers, swap \in CorrelatedSwaps :
              \E ts \in [1..n -> TransferLogs], i \in 1..(n + 1) :
                  batch = InsertAt(ts, i, swap)
    /\ decoded = << >>
    /\ stage = "input"
    /\ ClassifierAtRest
    /\ NormalizerAtRest
    /\ GuardAtRest
    /\ BotAtRest
    /\ ServicesAtRest
    /\ cache = << >>
    /\ now = 0
    /\ pc = [d \in Deliveries |-> "idle"]
    /\ body = [d \in Deliveries |-> NoBody]
    /\ rawEvents = [d \in Deliveries |-> << >>]
    /\ uniqueEvents = [d \in Deliveries |-> << >>]
    /\ buys = [d \in Deliveries |-> << >>]
    /\ handed = [d \in Deliveries |-> 0]
    /\ response = [d \in Deliveries |-> NoResponse]
    /\ gone = [k \in KeyUniverse |-> {}]
    /\ seen = {}
    /\ overlap = [d \in Deliveries |-> {}]

Decode ==
    /\ stage = "input"
    /\ decoded' = decodeLogs(batch)
    /\ stage' = "decoded"
    /\ UNCHANGED << batch, pipelineVars, classifierVars, normalizerVars, guardVars, botVars, serviceVars >>

NextDecode == Decode

SpecDecode == InitDecode /\ [][NextDecode]_vars

\* ------------------------------------------------ batches of any kind of log

MaxBatch == 3

SYNC_TOPIC == Str("0xsync")
UNKNOWN_POOL_ID == Str("0xnopool000000")

\* The pipeline of handleWebhook before any delivery
PipelineAtRest ==
    /\ cache = << >>
    /\ now = 0
    /\ pc = [d \in Deliveries |-> "idle"]
    /\ body = [d \in Deliveries |-> NoBody]
    /\ rawEvents = [d \in Deliveries |-> << >>]
    /\ uniqueEvents = [d \in Deliveries |-> << >>]
    /\ buys = [d \in Deliveries |-> << >>]
    /\ handed = [d \in Deliveries |-> 0]
    /\ response = [d \in Deliveries |-> NoResponse]
    /\ gone = [k \in KeyUniverse |-> {}]
    /\ seen = {}
    /\ overlap = [d \in Deliveries |-> {}]

\* A vault Swap log: pool id, tokenIn and tokenOut indexed, amountIn and
\* amountOut in the data; the transaction is sent by DAVE
VaultSwapLog(address, poolId, tokenOut, data, logIndex) ==
    [ DexLog(address, << BALANCER_SWAP_TOPIC, poolId, WETH, tokenOut >>, data,
             TX1, logIndex, FALSE) EXCEPT !.transactionFrom = DAVE ]

\* Well-formed swaps of the three variants emitted by their own pool
GoodSwapLogs ==
    { DexLog(V2_POOL_ADDRESS, << UNISWAP_V2_SWAP_TOPIC, ROUTER, Upper("0xalice") >>,
             << 0, 1, 2, 0 >>, TX1, 1, FALSE),
      DexLog(V3_POOL_ADDRESS, << UNISWAP_V3_SWAP_TOPIC, ROUTER, Upper("0xalice") >>,
             << 0 - 2, 1, 7, 7, 7 >>, TX1, 2, FALSE),
      VaultSwapLog(BALANCER_POOL_ADDRESS, BALANCER_POOL_ID, OCEAN_MAINNET, << 1, 2 >>, 3) }

\* Vault swaps of the registered pool emitted by the shared vault or by the
\* address of another registered pool, and a vault sale
VaultLogs ==
    { VaultSwapLog(BALANCER_VAULT_ADDRESS, BALANCER_POOL_ID, OCEAN_MAINNET, << 1, 2 >>, 4),
      VaultSwapLog(V2_POOL_ADDRESS, BALANCER_POOL_ID, OCEAN_MAINNET, << 1, 1 >>, 5),
      VaultSwapLog(BALANCER_POOL_ADDRESS, BALANCER_POOL_ID, WETH, << 2, 1 >>, 6) }

\* Logs of no monitored swap: an unknown emitter, another event of a
\* registered pool, a signature of another variant than the emitting pool's,
\* an unregistered pool id, a swap signature in upper-case letters
ForeignLogs ==
    { DexLog(ROUTER, << UNISWAP_V2_SWAP_TOPIC, ROUTER, ALICE >>, << 0, 1, 2, 0 >>, TX1, 7, FALSE),
      DexLog(V2_POOL_ADDRESS, << SYNC_TOPIC >>, << 5, 5 >>, TX1, 8, FALSE),
      DexLog(V3_POOL_ADDRESS, << UNISWAP_V2_SWAP_TOPIC, ROUTER, ALICE >>,
             << 0, 1, 2, 0 >>, TX1, 9, FALSE),
      DexLog(V2_POOL_ADDRESS, << UNISWAP_V3_SWAP_TOPIC, ROUTER, ALICE >>,
             << 0 - 2, 1, 7, 7, 7 >>, TX1, 10, FALSE),
      VaultSwapLog(BALANCER_POOL_ADDRESS, UNKNOWN_POOL_ID, OCEAN_MAINNET, << 1, 2 >>, 11),
      DexLog(V2_POOL_ADDRESS, << Upper(UNISWAP_V2_SWAP_TOPIC.s), ROUTER, ALICE >>,
             << 0, 1, 2, 0 >>, TX1, 19, FALSE) }

\* Logs the ABI decoder rejects: swap data cut short, a swap without its
\* indexed arguments, a transfer without its recipient, a transfer without
\* its amount
UndecodableLogs ==
    { DexLog(V2_POOL_ADDRESS, << UNISWAP_V2_SWAP_TOPIC, ROUTER, ALICE >>, << 0, 1 >>, TX1, 12, FALSE),
      DexLog(V3_POOL_ADDRESS, << UNISWAP_V3_SWAP_TOPIC >>, << 0 - 2, 1, 7, 7, 7 >>, TX1, 13, FALSE),
      VaultSwapLog(BALANCER_POOL_ADDRESS, BALANCER_POOL_ID, OCEAN_MAINNET, << 1 >>, 14),
      DexLog(OCEAN_MAINNET, << TRANSFER_TOPIC, V2_POOL_ADDRESS >>, << 2 >>, TX1, 15, FALSE),
      DexLog(OCEAN_MAINNET, << TRANSFER_TOPIC, ROUTER, CAROL >>, << >>, TX1, 16, FALSE) }

\* Transfers of the monitored token that follow every swap above
LateTransferLogs ==
    { DexLog(OCEAN_MAINNET, << TRANSFER_TOPIC, V2_POOL_ADDRESS, BOB >>, << 2 >>, TX1, 17, FALSE),
      DexLog(OCEAN_MAINNET, << TRANSFER_TOPIC, ROUTER, CAROL >>, << 2 >>, TX1, 18, FALSE) }

AnyLogs == GoodSwapLogs \cup VaultLogs \cup ForeignLogs \cup UndecodableLogs \cup LateTransferLogs

\* The batch is any sequence of up to MaxBatch of these logs
InitDispatch ==
    /\ \E n \in 0..MaxBatch : \E b \in [1..n -> AnyLogs] : batch = b
    /\ decoded = << >>
    /\ stage = "input"
    /\ PipelineAtRest
    /\ ClassifierAtRest
    /\ NormalizerAtRest
    /\ GuardAtRest
    /\ BotAtRest
    /\ ServicesAtRest

SpecDispatch == InitDispatch /\ [][NextDecode]_vars

\* ---------------------------------------------- classifyBuys on any events

MaxEvents == 2

Threshold == MIN_OCEAN_ALERT * Divisor

\* Raw magnitudes around the alert threshold: half of it, three that fall
\* short of it by less than the spacing of the floating-point numbers allows
\* to tell, the threshold itself and one and a half times it
ThresholdAmounts ==
    { Threshold \div 2, Threshold - 4, Threshold - 3, Threshold - 1, Threshold,
      Threshold + Threshold \div 2 }

\* The i-th swap event of a batch: a swap of the constant-product pool
SwapEventAt(i, oceanAmount, isBuy, buyerAddress) ==
    [dex |-> "uniswap-v2", chainId |-> 1, chainName |-> "Ethereum",
     poolLabel |-> KNOWN_POOLS[1].label, transactionHash |-> TX1, logIndex |-> i,
     blockNumber |-> 100, oceanAmount |-> oceanAmount, isBuy |-> isBuy,
     buyerAddress |-> buyerAddress, removed |-> FALSE]

SwapEventChoices ==
    [oceanAmount : ThresholdAmounts, isBuy : BOOLEAN, buyerAddress : { Undef, ALICE }]

\* What getOceanUsdPrice resolves to: a price, or null when the oracle and
\* its cache have none
PriceAnswers == { Null, Num(2) }

\* What getWalletStatus resolves to: null when the chain has no client or a
\* balance read fails, else the balances before and after the swap
WalletAnswers ==
    { Null,
      [previousBalance |-> 0, newBalance |-> Threshold],
      [previousBalance |-> Threshold, newBalance |-> 2 * Threshold] }

\* Any events, any answer of the price oracle and, for each event, any answer
\* of the balance oracle
InitClassify ==
    /\ \E n \in 0..MaxEvents :
           \E choice \in [1..n -> SwapEventChoices], price \in PriceAnswers,
              walletStatuses \in [1..n -> WalletAnswers] :
               /\ offered = [i \in 1..n |->
                                SwapEventAt(i, choice[i].oceanAmount, choice[i].isBuy,
                                            choice[i].buyerAddress)]
               /\ oracles = [price |-> price, walletStatuses |-> walletStatuses]
    /\ alerts = << >>
    /\ stage = "input"
    /\ PipelineAtRest
    /\ DecoderAtRest
    /\ NormalizerAtRest
    /\ GuardAtRest
    /\ BotAtRest
    /\ ServicesAtRest

ClassifyOffered ==
    /\ stage = "input"
    /\ alerts' = classifyBuys(offered, MIN_OCEAN_ALERT, oracles.price, oracles.walletStatuses)
    /\ stage' = "classified"
    /\ UNCHANGED << offered, oracles, batch, decoded, pipelineVars, normalizerVars, guardVars, botVars, serviceVars >>

NextClassify == ClassifyOffered

SpecClassify == InitClassify /\ [][NextClassify]_vars

\* --------------------------------------------- normalizeLogs on any body

MaxEntries == 2

\* The ways a payload writes the log index 16: in `logIndex` or in `index`,
\* as the hex string 0x10 or as a native number
IndexEncodings ==
    { [logIndex |-> NumStr(<< 1, 0 >>), index |-> Undef],
      [logIndex |-> Num(16), index |-> Undef],
      [logIndex |-> Undef, index |-> NumStr(<< 1, 0 >>)],
      [logIndex |-> Undef, index |-> Num(16)] }

\* The ways a payload writes the block number 100: natively or as 0x64
BlockNumberEncodings == { Num(100), NumStr(<< 6, 4 >>) }

\* The text in the letter case the provider chose
Cased(x, upper) == IF upper THEN Upper(x.s) ELSE x

\* A purchase on the constant-product pool as a provider may encode it
EncodedLog(upper, indexEncoding, blockNumber) ==
    [ RawLog(Cased(V2_POOL_ADDRESS, upper),
             << Cased(UNISWAP_V2_SWAP_TOPIC, upper), Cased(ROUTER, upper), Cased(ALICE, upper) >>,
             << 0, 0, Divisor, 0 >>, Cased(TX1, upper), indexEncoding.logIndex, blockNumber, FALSE)
      EXCEPT !.index = indexEncoding.index ]

EncodedLogs ==
    { EncodedLog(upper, indexEncoding, blockNumber) :
          upper \in BOOLEAN, indexEncoding \in IndexEncodings,
          blockNumber \in BlockNumberEncodings }

\* Entries that are no log: null, a number, an object whose address is a number
MalformedEntries ==
    { Null, Num(5),
      [ RawLog(Num(5), << >>, << >>, TX1, NumStr(<< 1, 0 >>), Num(100), FALSE)
        EXCEPT !.topics = Undef ] }

\* The three recognized shapes around a list of entries
ShapedBody(shape, entries) ==
    IF shape = "flat" THEN [logs |-> Arr(entries), txs |-> Undef, block |-> Undef]
    ELSE IF shape = "txs"
         THEN [logs |-> Undef, txs |-> Arr(<< [logs |-> Arr(entries)] >>), block |-> Undef]
    ELSE [logs |-> Undef, txs |-> Undef, block |-> [logs |-> Arr(entries), number |-> Undef]]

\* The topic lists a log can have: the first k of four topics
TopicLists ==
    { SubSeq(<< UNISWAP_V2_SWAP_TOPIC, ROUTER, ALICE, BOB >>, 1, k) : k \in 0..4 }

\* A log that gives its topics as an ordered array
FlatTopicLog(topics) ==
    RawLog(V2_POOL_ADDRESS, topics, << 0, 0, Divisor, 0 >>, TX1, NumStr(<< 1, 0 >>), Num(100), FALSE)

\* The same log with its topics in topic0..topic3; the fields after the last
\* topic hold `missing` (null or undefined)
ScalarTopicLog(topics, missing) ==
    LET slot(i) == IF i <= Len(topics) THEN topics[i] ELSE missing
    IN [ FlatTopicLog(topics) EXCEPT !.topics = Undef, !.topic0 = slot(1), !.topic1 = slot(2),
                                     !.topic2 = slot(3), !.topic3 = slot(4) ]

\* A scalar form with an empty slot between two topics
GapTopicLog ==
    [ FlatTopicLog(<< >>) EXCEPT !.topics = Undef, !.topic0 = UNISWAP_V2_SWAP_TOPIC,
                                 !.topic1 = Null, !.topic2 = ALICE, !.topic3 = Undef ]

TopicShapeLogs ==
    { FlatTopicLog(topics) : topics \in TopicLists }
    \cup { ScalarTopicLog(topics, missing) : topics \in TopicLists, missing \in { Null, Undef } }
    \cup { GapTopicLog }

\* Logs without a block number of their own, or with the native number 0
BlockNumberLogs ==
    { EncodedLog(FALSE, [logIndex |-> NumStr(<< 1, 0 >>), index |-> Undef], blockNumber) :
          blockNumber \in { Undef, Num(0) } }

\* What the parent block object gives as its number: nothing, or 200
\* natively or as 0xc8
ParentBlockNumbers == { Undef, Num(200), NumStr(<< 12, 8 >>) }

\* The parent-block shape with the block's number
BlockBody(entries, number) ==
    [logs |-> Undef, txs |-> Undef, block |-> [logs |-> Arr(entries), number |-> number]]

\* The per-transaction shape with one transaction for each entry
TxsEachBody(entries) ==
    [logs |-> Undef,
     txs |-> Arr([i \in 1..Len(entries) |-> [logs |-> Arr(<< entries[i] >>)]]),
     block |-> Undef]

AnyEntries == EncodedLogs \cup MalformedEntries \cup TopicShapeLogs \cup BlockNumberLogs

\* Bodies of no recognized shape: null, undefined, primitives, an object
\* without logs, an empty txs list, a logs field that is a string or a number
UnrecognizedBodies ==
    { Null, Undef, Num(5), Str("body"),
      [logs |-> Undef, txs |-> Undef, block |-> Undef],
      [logs |-> Undef, txs |-> Arr(<< >>), block |-> Undef],
      [logs |-> Str("logs"), txs |-> Undef, block |-> Undef],
      [logs |-> Num(5), txs |-> Undef, block |-> Undef] }

InitNormalize ==
    /\ \/ webhookBody \in UnrecognizedBodies
       \/ \E n \in 0..MaxEntries, shape \in { "flat", "txs", "block" } :
              \E entries \in [1..n -> AnyEntries] :
                  webhookBody = ShapedBody(shape, entries)
       \/ \E n \in 0..MaxEntries, number \in ParentBlockNumbers \ { Undef } :
              \E entries \in [1..n -> AnyEntries] :
                  webhookBody = BlockBody(entries, number)
       \/ \E n \in 2..MaxEntries :
              \E entries \in [1..n -> AnyEntries] :
                  webhookBody = TxsEachBody(entries)
    /\ canonical = << >>
    /\ stage = "input"
    /\ PipelineAtRest
    /\ DecoderAtRest
    /\ ClassifierAtRest
    /\ GuardAtRest
    /\ BotAtRest
    /\ ServicesAtRest

\* normalizeLogs(req.body) is called
Normalize ==
    /\ stage = "input"
    /\ LET call == normalizeLogsCall(webhookBody)
       IN /\ canonical' = call.value
          /\ stage' = IF call.raised THEN "raised" ELSE "normalized"
    /\ UNCHANGED << webhookBody, batch, decoded, pipelineVars, classifierVars, guardVars, botVars, serviceVars >>

NextNormalize == Normalize

SpecNormalize == InitNormalize /\ [][NextNormalize]_vars

\* ------------------------------------------------- properties of decodeLogs

SwapTopics == { UNISWAP_V2_SWAP_TOPIC, UNISWAP_V3_SWAP_TOPIC, BALANCER_SWAP_TOPIC }

IsSwapLog(l) == Len(l.topics) >= 1 /\ l.topics[1] \in SwapTopics

SwapIndices == { i \in 1..Len(batch) : IsSwapLog(batch[i]) }

\* The events decodeLogs returned for the log
EventsFor(l) ==
    { i \in 1..Len(decoded) :
          decoded[i].transactionHash = l.transactionHash /\ decoded[i].logIndex = l.logIndex }

\* The registry entry of the log's pool, read off the table
RegisteredPool(l) ==
    CHOOSE i \in 1..Len(KNOWN_POOLS) : KNOWN_POOLS[i].address = l.address

\* The monitored token of a chain
MonitoredToken(chainId) == IF chainId = 137 THEN MOCEAN_POLYGON ELSE OCEAN_MAINNET

\* The transfers of the monitored token in the swap's transaction after the swap
TransfersAfter(swap) ==
    { i \in 1..Len(batch) :
          /\ batch[i].address = MonitoredToken(KNOWN_POOLS[RegisteredPool(swap)].chainId)
          /\ Len(batch[i].topics) >= 3
          /\ batch[i].topics[1] = TRANSFER_TOPIC
          /\ batch[i].transactionHash = swap.transactionHash
          /\ batch[i].logIndex > swap.logIndex }

PoolTransfersAfter(swap) ==
    { i \in TransfersAfter(swap) : batch[i].topics[2] = swap.address }

First(S) == CHOOSE i \in S : \A j \in S : i <= j

LastHops(swap) ==
    { i \in TransfersAfter(swap) :
          \A j \in TransfersAfter(swap) : batch[j].logIndex <= batch[i].logIndex }

Recipient(i) == toLowerCase(batch[i].topics[3])

\* C6: when a transfer of the monitored token sent by the pool's own address
\* follows the swap in its transaction, the buyer of the swap is the
\* recipient of that transfer (the first such transfer of the batch), also
\* when transfers with a greater log index exist.
C6_PoolTransferHasPriority ==
    stage = "decoded" =>
        \A s \in SwapIndices :
            PoolTransfersAfter(batch[s]) # {} =>
                /\ EventsFor(batch[s]) # {}
                /\ \A e \in EventsFor(batch[s]) :
                       decoded[e].buyerAddress = Recipient(First(PoolTransfersAfter(batch[s])))

\* A pool transfer to one wallet is followed by a router transfer with a
\* greater log index to another wallet, and the buyer is the former.
C6_Witness ==
    /\ stage = "decoded"
    /\ \E s \in SwapIndices, i \in 1..Len(batch), j \in 1..Len(batch) :
           /\ i \in PoolTransfersAfter(batch[s])
           /\ j \in TransfersAfter(batch[s]) \ PoolTransfersAfter(batch[s])
           /\ batch[j].logIndex > batch[i].logIndex
           /\ Recipient(i) # Recipient(j)
           /\ \E e \in EventsFor(batch[s]) : decoded[e].buyerAddress = Recipient(i)

\* C7: when no transfer from the pool follows the swap but some transfer of
\* the monitored token in its transaction does, the buyer is the recipient of
\* the one with the greatest log index (the first of the batch among equals).
C7_LastTransferDecides ==
    stage = "decoded" =>
        \A s \in SwapIndices :
            (PoolTransfersAfter(batch[s]) = {} /\ TransfersAfter(batch[s]) # {}) =>
                /\ EventsFor(batch[s]) # {}
                /\ \A e \in EventsFor(batch[s]) :
                       decoded[e].buyerAddress = Recipient(First(LastHops(batch[s])))

\* Two router transfers follow the swap, the later one first in the batch,
\* next to a transfer of another transaction with a still greater index.
C7_Witness ==
    /\ stage = "decoded"
    /\ \E s \in SwapIndices, i \in 1..Len(batch), j \in 1..Len(batch) :
           /\ PoolTransfersAfter(batch[s]) = {}
           /\ i \in LastHops(batch[s])
           /\ j \in TransfersAfter(batch[s]) \ LastHops(batch[s])
           /\ j < i
           /\ Recipient(i) # Recipient(j)
           /\ \E e \in EventsFor(batch[s]) : decoded[e].buyerAddress = Recipient(i)

\* The buyer the sub-decoder reads off the swap log itself
NativeBuyer(l, isBuy) ==
    IF l.topics[1] = BALANCER_SWAP_TOPIC THEN l.transactionFrom
    ELSE IF isBuy THEN toLowerCase(l.topics[3])
    ELSE Undef

\* C8 as stated: with no transfer of the monitored token after the swap in
\* its transaction, the SwapEvent has no buyer address.
C8_Original ==
    stage = "decoded" =>
        \A s \in SwapIndices :
            TransfersAfter(batch[s]) = {} =>
                \A e \in EventsFor(batch[s]) : decoded[e].buyerAddress = Undef

\* C8 amended: with no transfer of the monitored token after the swap in its
\* transaction, the SwapEvent keeps the buyer its sub-decoder set: the swap's
\* own recipient (lowercased) for a purchase, none for a non-purchase.
C8_KeepsNativeBuyer ==
    stage = "decoded" =>
        \A s \in SwapIndices :
            TransfersAfter(batch[s]) = {} =>
                /\ EventsFor(batch[s]) # {}
                /\ \A e \in EventsFor(batch[s]) :
                       decoded[e].buyerAddress = NativeBuyer(batch[s], decoded[e].isBuy)

\* A purchase whose only transfers precede the swap or belong to another
\* transaction keeps the swap's recipient as buyer.
C8_Witness ==
    /\ stage = "decoded"
    /\ Len(batch) > 1
    /\ \E s \in SwapIndices :
           /\ TransfersAfter(batch[s]) = {}
           /\ \E e \in EventsFor(batch[s]) :
                  /\ decoded[e].isBuy
                  /\ decoded[e].buyerAddress = toLowerCase(batch[s].topics[3])

\* The in and out amounts of the monitored token's side of a constant-product
\* swap log, the side read off the registry's token ordering
V2Side(l) ==
    LET pool == KNOWN_POOLS[RegisteredPool(l)] IN
    IF pool.token0 = MonitoredToken(pool.chainId)
    THEN [in |-> l.data[1], out |-> l.data[3]]
    ELSE [in |-> l.data[2], out |-> l.data[4]]

V2Indices == { i \in 1..Len(batch) : batch[i].topics[1] = UNISWAP_V2_SWAP_TOPIC }

\* C9: a swap log of a registered constant-product pool decodes to an event
\* that is a purchase iff the out amount of the monitored token's side is
\* strictly positive, with that out amount as magnitude when it is a purchase
\* and that side's in amount otherwise.
C9_ConstantProductDecoder ==
    stage = "decoded" =>
        \A s \in V2Indices :
            /\ EventsFor(batch[s]) # {}
            /\ \A e \in EventsFor(batch[s]) :
                   /\ decoded[e].isBuy = (V2Side(batch[s]).out > 0)
                   /\ decoded[e].oceanAmount =
                          IF V2Side(batch[s]).out > 0
                          THEN V2Side(batch[s]).out ELSE V2Side(batch[s]).in

\* The monitored token is token1 of the pool and leaves it while the other
\* token's out amount is zero: a purchase of exactly that amount.
C9_Witness ==
    /\ stage = "decoded"
    /\ \E s \in V2Indices :
           /\ batch[s].address = QUICKSWAP_POOL_ADDRESS
           /\ batch[s].data[4] = MaxAmount
           /\ batch[s].data[3] = 0
           /\ batch[s].data[2] = 1
           /\ \E e \in EventsFor(batch[s]) :
                  decoded[e].isBuy /\ decoded[e].oceanAmount = MaxAmount

V3Indices == { i \in 1..Len(batch) : batch[i].topics[1] = UNISWAP_V3_SWAP_TOPIC }

\* The signed delta of the monitored token in a concentrated-liquidity swap log
V3Delta(l) ==
    LET pool == KNOWN_POOLS[RegisteredPool(l)] IN
    IF pool.token0 = MonitoredToken(pool.chainId) THEN l.data[1] ELSE l.data[2]

Abs(x) == IF x < 0 THEN 0 - x ELSE x

\* C10: a swap log of a registered concentrated-liquidity pool decodes to an
\* event whose magnitude is the absolute value of the monitored token's
\* delta and which is a purchase iff the delta is strictly negative.
C10_ConcentratedLiquidityDecoder ==
    stage = "decoded" =>
        \A s \in V3Indices :
            /\ EventsFor(batch[s]) # {}
            /\ \A e \in EventsFor(batch[s]) :
                   /\ decoded[e].oceanAmount = Abs(V3Delta(batch[s]))
                   /\ decoded[e].isBuy = (V3Delta(batch[s]) < 0)

\* A zero delta of the monitored token decodes to a non-purchase of
\* magnitude zero.
C10_Witness ==
    /\ stage = "decoded"
    /\ \E s \in V3Indices :
           /\ V3Delta(batch[s]) = 0
           /\ \E e \in EventsFor(batch[s]) :
                  ~decoded[e].isBuy /\ decoded[e].oceanAmount = 0

\* ---------------------------------------------- properties of the pipeline

Classified(d) == pc[d] \in {"notify", "done", "failed"}

KeyOf(e) == makeKey(e.transactionHash, e.logIndex)

\* Where a list of swap events holds a non-removed event of key k
LiveAt(es, k) == { i \in 1..Len(es) : KeyOf(es[i]) = k /\ ~es[i].removed }

\* Where it holds a removed event of key k
RemovedAt(es, k) == { i \in 1..Len(es) : KeyOf(es[i]) = k /\ es[i].removed }

\* The keys of the qualifying purchases of a list of swap events: not
\* removed, a purchase, at or above the threshold
Qualifying(es) ==
    { k \in KeyUniverse :
          \E i \in LiveAt(es, k) :
              es[i].isBuy /\ es[i].oceanAmount >= MIN_OCEAN_ALERT * Divisor }

\* The events of key k that passed the dedupe loop of delivery d
Forwarded(d, k) ==
    { i \in 1..Len(uniqueEvents[d]) : KeyOf(uniqueEvents[d][i].event) = k }

\* The alerts of key k in the list classifyBuys returned to delivery d
AlertsFor(d, k) ==
    { i \in 1..Len(buys[d]) : buys[d][i].txHash = k.tx /\ buys[d][i].ofLogIndex = k.idx }

\* Why the events of key k passed the dedupe loop of delivery d
Reasons(d, k) == UNION { uniqueEvents[d][i].admitted : i \in Forwarded(d, k) }

SamePayloadTwice(d1, d2) ==
    d1 # d2 /\ Classified(d1) /\ Classified(d2) /\ body[d1] = body[d2]

Concurrent(d1, d2) == d1 # d2 /\ d1 \in overlap[d2]

\* C2 as stated: of two concurrent deliveries, both forward an event of the
\* same key only after a reorg signal for that key.
C2_Original ==
    \A d1 \in Deliveries, d2 \in Deliveries, k \in KeyUniverse :
        (Concurrent(d1, d2) /\ Forwarded(d1, k) # {}) =>
            \A i \in Forwarded(d2, k) : "reorg" \in uniqueEvents[d2][i].admitted

\* C2 amended: of two concurrent deliveries, both forward an event of the
\* same key only if the key left the guard in between: by a reorg signal for
\* it, by the expiry of its time-to-live or by its eviction as the least
\* recently used key of a full guard. The check and the mark of a key are
\* never interleaved with those of another delivery.
C2_AtMostOneForwards ==
    \A d1 \in Deliveries, d2 \in Deliveries, k \in KeyUniverse :
        (Concurrent(d1, d2) /\ Forwarded(d1, k) # {}) =>
            \A i \in Forwarded(d2, k) :
                uniqueEvents[d2][i].admitted \cap {"reorg", "ttl", "lru"} # {}

\* Two deliveries in flight at once, both carrying a live event of the same
\* key: the first forwarded it, the second dropped it.
C2_Witness ==
    \E d1 \in Deliveries, d2 \in Deliveries, k \in KeyUniverse :
        /\ Concurrent(d1, d2)
        /\ InFlight(d1) /\ InFlight(d2)
        /\ LiveAt(rawEvents[d1], k) # {} /\ LiveAt(rawEvents[d2], k) # {}
        /\ RemovedAt(rawEvents[d1], k) = {} /\ RemovedAt(rawEvents[d2], k) = {}
        /\ Forwarded(d1, k) # {}
        /\ Forwarded(d2, k) = {}

IsDup(c, k, t) == isDuplicate(c, k.tx, k.idx, t)

Expired(c, k, t) == indexOfKey(c, k) # 0 /\ isStale(c[indexOfKey(c, k)], t)

\* C3 as stated: a marked key stops being reported as a duplicate only when
\* its time-to-live elapses or handleReorg is called for it.
C3_Original ==
    [][\A k \in KeyUniverse :
           (IsDup(cache, k, now) /\ ~IsDup(cache', k, now')) =>
               (Expired(cache', k, now') \/ "reorg" \in gone'[k])]_vars

\* C3 amended: a marked key stops being reported as a duplicate only when its
\* time-to-live elapses, when handleReorg is called for it, or when marking
\* other keys in a full guard evicts it as the least recently used one.
C3_DuplicateUntilGone ==
    [][\A k \in KeyUniverse :
           (IsDup(cache, k, now) /\ ~IsDup(cache', k, now')) =>
               (Expired(cache', k, now') \/ "reorg" \in gone'[k] \/ "lru" \in gone'[k])]_vars

\* A key is still reported as a duplicate after another key was marked after
\* it and a third one was removed by a reorg signal.
C3_Witness ==
    \E k \in KeyUniverse, j \in KeyUniverse, r \in KeyUniverse :
        /\ k # j /\ k # r /\ j # r
        /\ Len(cache) = 2
        /\ cache[1].key = k /\ cache[2].key = j
        /\ IsDup(cache, k, now)
        /\ r \in seen /\ "reorg" \in gone[r]

\* C4: handleReorg(k) evicts k at once, whatever its age and its place in the
\* LRU order: isDuplicate(k) is false right after it, and a delivery that
\* brings a non-removed event of key k after a reorg signal for k forwards
\* the event and, unless its payload removes k again, leaves k marked.
C4_ReorgThenReprocessed ==
    [][/\ \A k \in KeyUniverse :
              ~IsDup(handleReorg(cache', k.tx, k.idx), k, now')
       /\ \A d \in Deliveries, k \in KeyUniverse :
              (/\ pc[d] = "idle" /\ pc'[d] = "classify"
               /\ "reorg" \in gone[k]
               /\ LiveAt(rawEvents'[d], k) # {}) =>
                  /\ \E i \in 1..Len(uniqueEvents'[d]) : KeyOf(uniqueEvents'[d][i].event) = k
                  /\ RemovedAt(rawEvents'[d], k) = {} => IsDup(cache', k, now')]_vars

\* A key that had been marked and then removed by a reorg signal was
\* forwarded again and is reported as a duplicate again.
C4_Witness ==
    \E d \in Deliveries, k \in KeyUniverse :
        /\ \E i \in Forwarded(d, k) : uniqueEvents[d][i].admitted = {"reorg"}
        /\ IsDup(cache, k, now)

\* The list holds a removal of k that no non-removed event of k follows
RemovedLast(es, k) ==
    RemovedAt(es, k) # {} /\ \A i \in LiveAt(es, k) : \E j \in RemovedAt(es, k) : i < j

NoRemovedForwarded ==
    \A d \in Deliveries :
        /\ \A i \in 1..Len(uniqueEvents[d]) : ~uniqueEvents[d][i].event.removed
        /\ \A i \in 1..Len(buys[d]) : ~buys[d][i].ofRemoved

\* C5 as stated: no removed event is forwarded and no alert comes from a
\* removed log, and when a delivery is answered the keys its removed events
\* carry are absent from the guard.
C5_Original ==
    [][/\ NoRemovedForwarded'
       /\ \A d \in Deliveries, k \in KeyUniverse :
              (pc[d] # "done" /\ pc'[d] = "done" /\ RemovedAt(rawEvents'[d], k) # {}) =>
                  indexOfKey(cache', k) = 0]_vars

\* C5 amended: no removed event is forwarded and no alert comes from a
\* removed log; when the dedupe loop of a delivery ends, the key of a removed
\* event is absent from the guard unless a later non-removed event of the same
\* key in the same payload marked it again. Another delivery may mark the key
\* again before this one is answered.
C5_RemovedNeverForwarded ==
    [][/\ NoRemovedForwarded'
       /\ \A d \in Deliveries, k \in KeyUniverse :
              (pc[d] = "idle" /\ pc'[d] = "classify" /\ RemovedLast(rawEvents'[d], k)) =>
                  indexOfKey(cache', k) = 0]_vars

\* A delivery that carried only the removal of a marked key was answered with
\* no alert, and the key is no longer in the guard.
C5_Witness ==
    \E d \in Deliveries, k \in KeyUniverse :
        /\ pc[d] = "done"
        /\ RemovedAt(rawEvents[d], k) # {}
        /\ LiveAt(rawEvents[d], k) = {}
        /\ k \in seen
        /\ "reorg" \in gone[k]
        /\ indexOfKey(cache, k) = 0
        /\ buys[d] = << >>

\* ------------------------------------------- properties of decoder dispatch

\* The batch without its i-th log
RemoveAt(seq, i) == SubSeq(seq, 1, i - 1) \o SubSeq(seq, i + 1, Len(seq))

\* The registered vault pools, read off the table
VaultPoolIds ==
    { KNOWN_POOLS[i].poolId : i \in { j \in 1..Len(KNOWN_POOLS) : KNOWN_POOLS[j].type = "balancer-v2" } }

\* A well-formed vault swap of a registered pool that pays out the monitored token
IsVaultPurchase(l) ==
    /\ Len(l.topics) = 4
    /\ l.topics[1] = BALANCER_SWAP_TOPIC
    /\ l.topics[2] \in VaultPoolIds
    /\ l.topics[4] = OCEAN_MAINNET
    /\ Len(l.data) = 2

\* Transfer logs of the monitored token in the batch
TokenTransferIndices ==
    { i \in 1..Len(batch) :
          /\ batch[i].address = OCEAN_MAINNET
          /\ Len(batch[i].topics) >= 1
          /\ batch[i].topics[1] = TRANSFER_TOPIC }

\* C11: a log with the vault swap signature whose pool identifier is
\* registered and whose tokenOut is the monitored token yields a purchase
\* event of the vault variant with magnitude amountOut, whatever address
\* emitted it; with no transfer of the monitored token in the batch its buyer
\* is the transaction sender.
C11_VaultSwapResolvedByPoolId ==
    stage = "decoded" =>
        \A i \in 1..Len(batch) :
            IsVaultPurchase(batch[i]) =>
                \E e \in EventsFor(batch[i]) :
                    /\ decoded[e].dex = "balancer-v2"
                    /\ decoded[e].isBuy
                    /\ decoded[e].oceanAmount = batch[i].data[2]
                    /\ TokenTransferIndices = {} =>
                           decoded[e].buyerAddress = batch[i].transactionFrom

\* The same for the logs emitted by the address of a registered pool: these
\* are the vault swaps decodeLogs does emit
C11_FromRegisteredAddress ==
    stage = "decoded" =>
        \A i \in 1..Len(batch) :
            IsVaultPurchase(batch[i]) /\ getPoolByAddress(batch[i].address) # Undef =>
                \E e \in EventsFor(batch[i]) :
                    /\ decoded[e].dex = "balancer-v2"
                    /\ decoded[e].isBuy
                    /\ decoded[e].oceanAmount = batch[i].data[2]
                    /\ TokenTransferIndices = {} =>
                           decoded[e].buyerAddress = batch[i].transactionFrom

\* A vault purchase emitted by the shared vault was decoded
C11_Witness ==
    /\ stage = "decoded"
    /\ \E i \in 1..Len(batch) :
           /\ IsVaultPurchase(batch[i])
           /\ batch[i].address = BALANCER_VAULT_ADDRESS
           /\ EventsFor(batch[i]) = {}

\* The protocol variant a swap signature belongs to
VariantOf(topic) ==
    IF topic = UNISWAP_V2_SWAP_TOPIC THEN "uniswap-v2"
    ELSE IF topic = UNISWAP_V3_SWAP_TOPIC THEN "uniswap-v3"
    ELSE "balancer-v2"

\* The registered pools of the variant the log resolves to: by its address
\* for the two pool-emitted variants, by its pool identifier for the vault's
ResolvedPools(l) ==
    { p \in 1..Len(KNOWN_POOLS) :
          /\ IsSwapLog(l)
          /\ KNOWN_POOLS[p].type = VariantOf(l.topics[1])
          /\ IF l.topics[1] = BALANCER_SWAP_TOPIC
             THEN Len(l.topics) >= 2 /\ KNOWN_POOLS[p].poolId = l.topics[2]
             ELSE KNOWN_POOLS[p].address = l.address }

\* The events with their buyer left out
WithoutBuyers(events) ==
    [i \in 1..Len(events) |-> [events[i] EXCEPT !.buyerAddress = Undef]]

\* Every event comes from a log with one of the three swap signatures that
\* resolves to a registered pool of the signature's variant
OnlyResolvedSwapsEmit ==
    \A e \in 1..Len(decoded) :
        \E i \in 1..Len(batch) :
            /\ batch[i].transactionHash = decoded[e].transactionHash
            /\ batch[i].logIndex = decoded[e].logIndex
            /\ \E p \in ResolvedPools(batch[i]) :
                   /\ decoded[e].dex = KNOWN_POOLS[p].type
                   /\ decoded[e].poolLabel = KNOWN_POOLS[p].label

\* C12 as stated: only logs with a swap signature that resolve to a
\* registered pool of the matching variant yield an event, and every other
\* log can be taken out of the batch without any change to the events.
C12_Original ==
    stage = "decoded" =>
        /\ OnlyResolvedSwapsEmit
        /\ \A i \in 1..Len(batch) :
               ResolvedPools(batch[i]) = {} => decodeLogs(RemoveAt(batch, i)) = decoded

\* C12 amended: only logs with a swap signature that resolve to a registered
\* pool of the matching variant yield an event; every other log yields none,
\* and taking it out of the batch changes no event, except that a transfer
\* log of the monitored token can change the buyers (and nothing else).
C12_OnlyResolvedSwapsEmit ==
    stage = "decoded" =>
        /\ OnlyResolvedSwapsEmit
        /\ \A i \in 1..Len(batch) :
               ResolvedPools(batch[i]) = {} =>
                   /\ decodeLogs(<< batch[i] >>) = << >>
                   /\ WithoutBuyers(decodeLogs(RemoveAt(batch, i))) = WithoutBuyers(decoded)
                   /\ i \notin TokenTransferIndices =>
                          decodeLogs(RemoveAt(batch, i)) = decoded

\* A swap was decoded next to a log of an unknown emitter and a log whose
\* signature is of another variant than its pool
C12_Witness ==
    /\ stage = "decoded"
    /\ Len(decoded) = 1
    /\ \E i, j, k \in 1..Len(batch) :
           /\ batch[i] \in GoodSwapLogs
           /\ getPoolByAddress(batch[j].address) = Undef /\ IsSwapLog(batch[j])
           /\ getPoolByAddress(batch[k].address) # Undef /\ IsSwapLog(batch[k])
           /\ ResolvedPools(batch[k]) = {}

\* ------------------------------------------ properties of decode failures

\* The indexed arguments (topics after the signature) and the data words
\* the ABI of an event signature requires
AbiShape(topic) ==
    IF topic = UNISWAP_V2_SWAP_TOPIC THEN [indexed |-> 2, words |-> 4]
    ELSE IF topic = UNISWAP_V3_SWAP_TOPIC THEN [indexed |-> 2, words |-> 5]
    ELSE IF topic = BALANCER_SWAP_TOPIC THEN [indexed |-> 3, words |-> 2]
    ELSE [indexed |-> 2, words |-> 1]

\* A log with a swap signature or a Transfer log of the monitored token that
\* is too short for its ABI
AbiFails(l) ==
    /\ \/ IsSwapLog(l)
       \/ l.address = OCEAN_MAINNET /\ Len(l.topics) >= 1 /\ l.topics[1] = TRANSFER_TOPIC
    /\ \/ Len(l.topics) - 1 < AbiShape(l.topics[1]).indexed
       \/ Len(l.data) < AbiShape(l.topics[1]).words

\* C13: a log the ABI decoder rejects yields no event, and the batch yields
\* the very events, buyers included, it yields without that log.
C13_DecodeFailureSkipsOneLog ==
    stage = "decoded" =>
        \A i \in 1..Len(batch) :
            AbiFails(batch[i]) =>
                /\ decodeLogs(<< batch[i] >>) = << >>
                /\ decodeLogs(RemoveAt(batch, i)) = decoded

\* A purchase was decoded, with the buyer a later transfer gives it, in a
\* batch that starts with a transfer the ABI decoder rejects
C13_Witness ==
    /\ stage = "decoded"
    /\ Len(batch) = 3
    /\ AbiFails(batch[1]) /\ batch[1].address = OCEAN_MAINNET
    /\ batch[2] \in LateTransferLogs
    /\ batch[3] \in GoodSwapLogs
    /\ Len(decoded) = 1
    /\ decoded[1].buyerAddress = Recipient(2)

\* A purchase was decoded after a swap the ABI decoder rejects
C13_WitnessSwap ==
    /\ stage = "decoded"
    /\ Len(batch) >= 2
    /\ AbiFails(batch[1]) /\ IsSwapLog(batch[1])
    /\ batch[2] \in GoodSwapLogs
    /\ Len(decoded) = 1

\* ----------------------------------------------- properties of classifyBuys

\* The alerts classifyBuys returned for the i-th event offered
AlertsOf(i) == { a \in 1..Len(alerts) : alerts[a].ofLogIndex = offered[i].logIndex }

\* The raw magnitude converts to a floating-point number without rounding
ExactlyDisplayed(amount) ==
    /\ Number(amount \div Divisor) = amount \div Divisor
    /\ Number(amount % Divisor) = amount % Divisor

\* C14: classifyBuys returns an alert (one) for an event exactly when the
\* event is a purchase whose display magnitude is not below the threshold;
\* a purchase of exactly the threshold is retained, and a purchase whose
\* magnitude, displayed without rounding, is below the threshold is dropped.
C14_ThresholdInclusive ==
    stage = "classified" =>
        \A i \in 1..Len(offered) :
            /\ Cardinality(AlertsOf(i)) <= 1
            /\ AlertsOf(i) # {} <=>
                   /\ offered[i].isBuy
                   /\ ~(oceanToNumber(offered[i].oceanAmount) < Threshold)
            /\ offered[i].isBuy /\ offered[i].oceanAmount = Threshold => AlertsOf(i) # {}
            /\ ExactlyDisplayed(offered[i].oceanAmount) /\ offered[i].oceanAmount < Threshold =>
                   AlertsOf(i) = {}

\* A purchase just below the threshold was dropped and one of exactly the
\* threshold retained
C14_Witness ==
    /\ stage = "classified"
    /\ Len(offered) = 2
    /\ offered[1].isBuy /\ offered[1].oceanAmount = Threshold - 4
    /\ offered[2].isBuy /\ offered[2].oceanAmount = Threshold
    /\ AlertsOf(1) = {}
    /\ AlertsOf(2) # {}

\* A purchase whose raw magnitude falls short of the threshold by less than
\* the floating-point numbers can tell is displayed as the threshold and
\* retained
C14_RoundedToThreshold ==
    /\ stage = "classified"
    /\ \E i \in 1..Len(offered) :
           /\ offered[i].oceanAmount < Threshold
           /\ oceanToNumber(offered[i].oceanAmount) = Threshold
           /\ AlertsOf(i) # {}

\* A purchase classifyBuys is to alert on
Qualifies(i) == offered[i].isBuy /\ ~(oceanToNumber(offered[i].oceanAmount) < Threshold)

\* C16: whatever the price oracle and the balance oracle answer, every
\* qualifying purchase has its alert, with the fields of the swap; the USD
\* value is left out exactly when there is no price, and the balances and
\* the new-holder mark are those the balance oracle gave for this purchase,
\* left out exactly when it gave none (or the purchase has no buyer).
C16_EnrichmentFailureKeepsAlert ==
    stage = "classified" =>
        \A i \in 1..Len(offered) :
            Qualifies(i) =>
                /\ Cardinality(AlertsOf(i)) = 1
                /\ \A a \in AlertsOf(i) :
                       LET status == oracles.walletStatuses[i]
                           read == Truthy(offered[i].buyerAddress) /\ status # Null
                       IN /\ alerts[a].oceanAmount = offered[i].oceanAmount
                          /\ alerts[a].txHash = offered[i].transactionHash
                          /\ alerts[a].dex = offered[i].dex
                          /\ alerts[a].poolLabel = offered[i].poolLabel
                          /\ alerts[a].buyerAddress = offered[i].buyerAddress
                          /\ alerts[a].usdValue = Undef <=> oracles.price = Null
                          /\ read => /\ alerts[a].previousBalance = Num(status.previousBalance)
                                     /\ alerts[a].newBalance = Num(status.newBalance)
                                     /\ alerts[a].isNewHolder = Bool(status.previousBalance = 0)
                          /\ ~read => /\ alerts[a].previousBalance = Undef
                                      /\ alerts[a].newBalance = Undef
                                      /\ alerts[a].isNewHolder = Undef

\* Two purchases were alerted with no price available, the first without
\* balances because the balance oracle failed for its buyer, the second with
\* the balances read for it
C16_Witness ==
    /\ stage = "classified"
    /\ Len(offered) = 2
    /\ Qualifies(1) /\ Qualifies(2)
    /\ Truthy(offered[1].buyerAddress) /\ Truthy(offered[2].buyerAddress)
    /\ oracles.price = Null
    /\ oracles.walletStatuses[1] = Null
    /\ oracles.walletStatuses[2] # Null
    /\ Len(alerts) = 2
    /\ alerts[1].usdValue = Undef /\ alerts[1].previousBalance = Undef
    /\ alerts[2].usdValue = Undef /\ alerts[2].previousBalance # Undef

\* ------------------------------------------- properties of the alert list

\* sub is seq with some of its elements left out, the others in their order
IsSubsequence(sub, seq) ==
    \E f \in [1..Len(sub) -> 1..Len(seq)] :
        /\ \A i, j \in 1..Len(sub) : i < j => f[i] < f[j]
        /\ \A i \in 1..Len(sub) : seq[f[i]] = sub[i]

\* The swap an alert stands for: its key, its removal flag and its magnitude
SwapOfAlert(a) ==
    [key |-> makeKey(a.txHash, a.ofLogIndex), removed |-> a.ofRemoved, amount |-> a.oceanAmount]

SwapOfEvent(e) == [key |-> KeyOf(e), removed |-> e.removed, amount |-> e.oceanAmount]

SwapOfLog(l) ==
    [key |-> makeKey(l.transactionHash, HexValue(l.logIndex.digits)),
     removed |-> l.removed.v, amount |-> l.data.arr[3]]

\* A non-removed purchase at or above the threshold
QualifyingEvent(e) == ~e.removed /\ e.isBuy /\ e.oceanAmount >= Threshold

\* The first non-removed event of key k in a list of events, 0 when none
FirstLive(es, k) == IF LiveAt(es, k) = {} THEN 0 ELSE First(LiveAt(es, k))

C17_AlwaysAcknowledged ==
    \A d \in Deliveries : response[d].status \in { NoResponse.status, 200 }

\* A delivery with an alert for a purchase with a buyer was answered 500:
\* the notifier threw before the alert was handed over
C17_Witness ==
    \E d \in Deliveries :
        /\ pc[d] = "failed"
        /\ response[d].status = 500
        /\ handed[d] < Len(buys[d])
        /\ Truthy(buys[d][handed[d] + 1].buyerAddress)

\* ---------------------------------------------- properties of normalizeLogs

\* The entries of the body, when it has one of the recognized shapes
HasEntries(b) ==
    /\ b # Null /\ b # Undef /\ IsPayloadObject(b)
    /\ \/ IsArray(b.logs)
       \/ IsArray(b.txs) /\ Len(b.txs.arr) >= 1 /\ IsArray(b.txs.arr[1].logs)
       \/ b.block # Undef /\ IsArray(b.block.logs)

EntriesOf(b) ==
    IF IsArray(b.logs) THEN b.logs.arr
    ELSE IF IsArray(b.txs) THEN b.txs.arr[1].logs.arr
    ELSE b.block.logs.arr

CanonicalLogFields ==
    { "address", "topics", "data", "transactionHash", "transactionFrom", "logIndex",
      "blockNumber", "removed" }

\* C18: a call of normalizeLogs never raises; it returns a sequence of
\* records with the fields of CanonicalLog, one per entry of the body or none
\* at all, and none for a body of no recognized shape.
C18_NormalizerNeverRaises ==
    /\ stage # "raised"
    /\ stage = "normalized" =>
           /\ \A i \in 1..Len(canonical) : DOMAIN canonical[i] = CanonicalLogFields
           /\ ~HasEntries(webhookBody) => canonical = << >>
           /\ HasEntries(webhookBody) =>
                  Len(canonical) \in { 0, Len(EntriesOf(webhookBody)) }

\* A body whose logs hold a well-formed log and a null entry was normalized
\* to no log
C18_Witness ==
    /\ stage = "normalized"
    /\ HasEntries(webhookBody)
    /\ Len(EntriesOf(webhookBody)) = 2
    /\ EntriesOf(webhookBody)[1] \in EncodedLogs
    /\ EntriesOf(webhookBody)[2] = Null
    /\ canonical = << >>

\* A null body was normalized to no log
C18_WitnessNull ==
    stage = "normalized" /\ webhookBody = Null /\ canonical = << >>

\* The bodies all of whose entries are logs: normalizeLogs returns one
\* CanonicalLog per entry
WellFormed(b) ==
    HasEntries(b) /\ \A i \in 1..Len(EntriesOf(b)) : EntriesOf(b)[i] \in EncodedLogs

\* C19: every CanonicalLog has the log index 16 and the block number 100 its
\* entry gives, whichever field and encoding the entry uses.
C19_NativeIntegers ==
    stage = "normalized" /\ WellFormed(webhookBody) =>
        /\ Len(canonical) = Len(EntriesOf(webhookBody))
        /\ \A i \in 1..Len(canonical) :
               /\ canonical[i].logIndex = 16
               /\ canonical[i].blockNumber = 100

\* The same without the entries that write the log index as a native number
\* in `logIndex`: these encodings the normalizer reads
C19_ReadEncodings ==
    stage = "normalized" /\ WellFormed(webhookBody) =>
        /\ Len(canonical) = Len(EntriesOf(webhookBody))
        /\ \A i \in 1..Len(canonical) :
               /\ ~IsNumber(EntriesOf(webhookBody)[i].logIndex) => canonical[i].logIndex = 16
               /\ canonical[i].blockNumber = 100

\* A log whose `logIndex` is the native number 16 came out with log index 0
C19_Witness ==
    /\ stage = "normalized"
    /\ WellFormed(webhookBody)
    /\ \E i \in 1..Len(canonical) :
           /\ EntriesOf(webhookBody)[i].logIndex = Num(16)
           /\ canonical[i].logIndex = 0

\* C20: every CanonicalLog has its address, its topics and its transaction
\* hash in lowercase, so that its dedupe key is that of the lowercase hash.
C20_LowercaseHex ==
    stage = "normalized" /\ WellFormed(webhookBody) =>
        /\ Len(canonical) = Len(EntriesOf(webhookBody))
        /\ \A i \in 1..Len(canonical) :
               /\ ~canonical[i].address.up
               /\ \A t \in 1..Len(canonical[i].topics) : ~canonical[i].topics[t].up
               /\ ~canonical[i].transactionHash.up
               /\ makeKey(canonical[i].transactionHash, canonical[i].logIndex)
                      = makeKey(TX1, canonical[i].logIndex)

\* Only the address is lowercased
C20_AddressLowercase ==
    stage = "normalized" /\ WellFormed(webhookBody) =>
        \A i \in 1..Len(canonical) : ~canonical[i].address.up

\* The same log in lowercase and in uppercase came out with two dedupe keys
C20_Witness ==
    /\ stage = "normalized"
    /\ WellFormed(webhookBody)
    /\ Len(canonical) = 2
    /\ canonical[1].logIndex = canonical[2].logIndex
    /\ toLowerCase(EntriesOf(webhookBody)[1].transactionHash)
           = toLowerCase(EntriesOf(webhookBody)[2].transactionHash)
    /\ makeKey(canonical[1].transactionHash, canonical[1].logIndex)
           # makeKey(canonical[2].transactionHash, canonical[2].logIndex)

\* The body was normalized to one CanonicalLog for each entry it was read from
EachEntryNormalized ==
    /\ stage = "normalized"
    /\ HasEntries(webhookBody)
    /\ Len(canonical) = Len(EntriesOf(webhookBody))

ScalarTopic(log, i) ==
    IF i = 1 THEN log.topic0 ELSE IF i = 2 THEN log.topic1
    ELSE IF i = 3 THEN log.topic2 ELSE log.topic3

\* The topics a scalar-form entry gives: those before its first null or
\* missing slot
LeadingTopics(log) ==
    LET k == IF \E i \in 1..4 : ScalarTopic(log, i) \in { Null, Undef }
             THEN (CHOOSE i \in 1..4 : /\ ScalarTopic(log, i) \in { Null, Undef }
                                       /\ \A j \in 1..(i - 1) : ScalarTopic(log, j) \notin { Null, Undef }) - 1
             ELSE 4
    IN [i \in 1..k |-> ScalarTopic(log, i)]

\* The entry is a log in scalar form with only trailing slots null or missing
IsScalarForm(log) ==
    /\ IsLogObject(log)
    /\ log.topics = Undef
    /\ \A i \in (Len(LeadingTopics(log)) + 1)..4 : ScalarTopic(log, i) \in { Null, Undef }

\* scalar is the scalar form of the log that flat gives with a topics array
IsScalarFormOf(scalar, flat) ==
    /\ IsScalarForm(scalar)
    /\ IsLogObject(flat)
    /\ IsArray(flat.topics)
    /\ LeadingTopics(scalar) = flat.topics.arr
    /\ [ scalar EXCEPT !.topics = Undef, !.topic0 = Undef, !.topic1 = Undef,
                       !.topic2 = Undef, !.topic3 = Undef ]
           = [ flat EXCEPT !.topics = Undef, !.topic0 = Undef, !.topic1 = Undef,
                           !.topic2 = Undef, !.topic3 = Undef ]

\* C21: an entry giving its topics in topic0..topic3, trailing slots null or
\* missing, comes out with exactly its leading topics, topic_i at position i,
\* and identical to the output of the entry that gives the same log with a
\* topics array.
C21_ScalarTopicsEquivalent ==
    EachEntryNormalized =>
        \A j \in 1..Len(canonical) :
            IsScalarForm(EntriesOf(webhookBody)[j]) =>
                /\ canonical[j].topics = LeadingTopics(EntriesOf(webhookBody)[j])
                /\ \A i \in 1..Len(canonical) :
                       IsScalarFormOf(EntriesOf(webhookBody)[j], EntriesOf(webhookBody)[i]) =>
                           canonical[i] = canonical[j]

\* A log with two topics was normalized from its array form and from its
\* scalar form, to the same CanonicalLog
C21_Witness ==
    /\ EachEntryNormalized
    /\ Len(canonical) = 2
    /\ IsScalarFormOf(EntriesOf(webhookBody)[2], EntriesOf(webhookBody)[1])
    /\ EntriesOf(webhookBody)[2].topic2 = Null
    /\ Len(canonical[1].topics) = 2
    /\ canonical[1] = canonical[2]

\* A scalar form with an empty slot between two topics comes out with the
\* later topic moved up
C21_GapClosed ==
    /\ EachEntryNormalized
    /\ \E j \in 1..Len(canonical) :
           /\ EntriesOf(webhookBody)[j] = GapTopicLog
           /\ canonical[j].topics = << UNISWAP_V2_SWAP_TOPIC, ALICE >>

\* The number a payload field encodes, natively or as a hex string
EncodedValue(x) == IF IsNumber(x) THEN x.v ELSE HexValue(x.digits)

\* The number of the parent block object of the body, Undef when it has none
ParentBlockNumber(b) == IF b.block # Undef THEN b.block.number ELSE Undef

C22_ZeroIsAbsent ==
    /\ EachEntryNormalized
    /\ ParentBlockNumber(webhookBody) = Num(200)
    /\ \E i \in 1..Len(canonical) :
           /\ IsLogObject(EntriesOf(webhookBody)[i])
           /\ EntriesOf(webhookBody)[i].blockNumber = Num(0)
           /\ canonical[i].blockNumber = 200

\* The raw logs of all the transactions of a per-transaction body, in order
RECURSIVE LogsOfTxs(_, _)
LogsOfTxs(txs, i) ==
    IF i > Len(txs) THEN << >> ELSE txs[i].logs.arr \o LogsOfTxs(txs, i + 1)

\* A per-transaction body all of whose logs are well-formed
IsTxsBody(b) ==
    /\ b # Null /\ b # Undef /\ IsPayloadObject(b)
    /\ b.logs = Undef
    /\ IsArray(b.txs)
    /\ \A i \in 1..Len(LogsOfTxs(b.txs.arr, 1)) : LogsOfTxs(b.txs.arr, 1)[i] \in EncodedLogs

\* C30: a per-transaction body comes out with one CanonicalLog for every raw
\* log of every transaction, in payload order.
C30_EveryTransactionNormalized ==
    stage = "normalized" /\ IsTxsBody(webhookBody) =>
        LET logs == LogsOfTxs(webhookBody.txs.arr, 1)
        IN /\ Len(canonical) = Len(logs)
           /\ \A i \in 1..Len(logs) :
                  canonical[i] = normalizeOne(logs[i], Undef)

\* The same for the bodies with one transaction: these come out whole
C30_FirstTransactionOnly ==
    stage = "normalized" /\ IsTxsBody(webhookBody) /\ Len(webhookBody.txs.arr) >= 1 =>
        LET logs == webhookBody.txs.arr[1].logs.arr
        IN /\ Len(canonical) = Len(logs)
           /\ \A i \in 1..Len(logs) :
                  canonical[i] = normalizeOne(logs[i], Undef)

\* A body of two transactions with one log each came out with the first log only
C30_Witness ==
    /\ stage = "normalized"
    /\ IsTxsBody(webhookBody)
    /\ Len(webhookBody.txs.arr) = 2
    /\ Len(LogsOfTxs(webhookBody.txs.arr, 1)) = 2
    /\ Len(canonical) = 1

\* ------------------------------------------------- DedupeManager on its own

\* Calls made on the guard in one run
MaxCalls == 4

\* The swap event a delivery brings for key k
EventOfKey(k) == [transactionHash |-> k.tx, logIndex |-> k.idx, removed |-> FALSE]

InitGuard ==
    /\ calls = << >>
    /\ BotAtRest
    /\ ServicesAtRest
    /\ stage = "input"
    /\ PipelineAtRest
    /\ DecoderAtRest
    /\ ClassifierAtRest
    /\ NormalizerAtRest

\* dedupeManager.markSeen(k)
MarkSeen(k) ==
    /\ Len(calls) < MaxCalls
    /\ cache' = markSeen(cache, k.tx, k.idx, now)
    /\ calls' = Append(calls, [op |-> "markSeen", key |-> k, at |-> now])
    /\ UNCHANGED << now, pc, body, rawEvents, uniqueEvents, buys, handed, response, gone, seen,
                    overlap, decoderVars, classifierVars, normalizerVars, botVars, serviceVars >>

\* dedupeManager.handleReorg(k)
HandleReorg(k) ==
    /\ Len(calls) < MaxCalls
    /\ cache' = handleReorg(cache, k.tx, k.idx)
    /\ calls' = Append(calls, [op |-> "handleReorg", key |-> k, at |-> now])
    /\ UNCHANGED << now, pc, body, rawEvents, uniqueEvents, buys, handed, response, gone, seen,
                    overlap, decoderVars, classifierVars, normalizerVars, botVars, serviceVars >>

\* The dedupe loop of handleWebhook meets a non-removed event of key k: the
\* event is skipped as a duplicate, or marked and forwarded
Deliver(k) ==
    /\ Len(calls) < MaxCalls
    /\ LET st == dedupeLoop(<< EventOfKey(k) >>, cache, gone, seen, now)
       IN /\ cache' = st.cache
          /\ calls' = Append(calls, [op |-> IF Len(st.unique) = 1 THEN "forwarded" ELSE "skipped",
                                     key |-> k, at |-> now])
    /\ UNCHANGED << now, pc, body, rawEvents, uniqueEvents, buys, handed, response, gone, seen,
                    overlap, decoderVars, classifierVars, normalizerVars, botVars, serviceVars >>

NextGuard ==
    \/ \E k \in KeyUniverse : MarkSeen(k)
    \/ \E k \in KeyUniverse : HandleReorg(k)
    \/ \E k \in KeyUniverse : Deliver(k)
    \/ Tick

SpecGuard == InitGuard /\ [][NextGuard]_vars

\* The calls that mark their key
Marks(i) == calls[i].op \in { "markSeen", "forwarded" }

\* The position of the last call that marked k, 0 when there is none
LastMark(k) ==
    IF \E i \in 1..Len(calls) : Marks(i) /\ calls[i].key = k
    THEN CHOOSE i \in 1..Len(calls) :
             /\ Marks(i) /\ calls[i].key = k
             /\ \A j \in (i + 1)..Len(calls) : ~(Marks(j) /\ calls[j].key = k)
    ELSE 0

MarkedKeys == { k \in KeyUniverse : LastMark(k) # 0 }

\* The keys marked most recently: fewer than MaxSize other keys were marked
\* after their last mark
RecentlyMarked ==
    { k \in MarkedKeys :
          Cardinality({ j \in MarkedKeys : LastMark(j) > LastMark(k) }) < MaxSize }

\* handleReorg(k) was called after the last mark of k
ReorgedSince(k) ==
    \E i \in (LastMark(k) + 1)..Len(calls) : calls[i].op = "handleReorg" /\ calls[i].key = k

\* The time since the last mark of k is within the time-to-live
WithinTtl(k) == now - calls[LastMark(k)].at <= Ttl

\* C23: the guard never holds more keys than its capacity, and the capacity
\* most recently marked keys are all reported as duplicates while within their
\* time-to-live (and not removed by handleReorg): what an insertion into the
\* full guard evicts is the least recently used key.
C23_BoundedLruGuard ==
    /\ Len(cache) <= MaxSize
    /\ \A k \in RecentlyMarked :
           (WithinTtl(k) /\ ~ReorgedSince(k)) => IsDup(cache, k, now)

\* More keys than the capacity were marked, one of them twice: the guard is
\* full, the key marked first and not again is gone, the others are duplicates
C23_Witness ==
    /\ Len(calls) = 4
    /\ \A i \in 1..4 : calls[i].op = "markSeen"
    /\ calls[1].key = calls[3].key
    /\ Cardinality(MarkedKeys) = 3
    /\ Len(cache) = MaxSize
    /\ Cardinality(RecentlyMarked) = MaxSize
    /\ calls[1].key \in RecentlyMarked
    /\ \A k \in RecentlyMarked : WithinTtl(k) /\ IsDup(cache, k, now)
    /\ ~IsDup(cache, calls[2].key, now)

\* C24: right after markSeen(k), isDuplicate(k) is true; once more than the
\* time-to-live has passed since the last mark of k, isDuplicate(k) is false
\* whatever the guard holds, and a delivery of the event is skipped only if
\* its key was marked no longer than the time-to-live before.
C24_ExpiresAfterTtl ==
    /\ \A k \in MarkedKeys :
           /\ (LastMark(k) = Len(calls) /\ calls[Len(calls)].at = now) => IsDup(cache, k, now)
           /\ ~WithinTtl(k) => ~IsDup(cache, k, now)
    /\ \A i \in 1..Len(calls) :
           calls[i].op = "skipped" =>
               \E j \in 1..(i - 1) :
                   /\ Marks(j) /\ calls[j].key = calls[i].key
                   /\ calls[i].at - calls[j].at <= Ttl

\* A key was marked, more than the time-to-live passed with room left in the
\* guard, and the redelivered event was forwarded
C24_Witness ==
    /\ Len(calls) = 2
    /\ calls[1].op = "markSeen"
    /\ calls[2].op = "forwarded"
    /\ calls[2].key = calls[1].key
    /\ calls[2].at - calls[1].at > Ttl
    /\ IsDup(cache, calls[2].key, now)

\* At exactly the time-to-live after the mark the key is still a duplicate
C24_DuplicateAtTtl ==
    /\ Len(calls) = 1
    /\ calls[1].op = "markSeen"
    /\ now - calls[1].at = Ttl
    /\ IsDup(cache, calls[1].key, now)

\* A key stays expired while the guard is not full: the stale entry is not
\* reported, though it still occupies its place
C24_StaleEntryKept ==
    /\ Len(calls) = 1
    /\ calls[1].op = "markSeen"
    /\ ~WithinTtl(calls[1].key)
    /\ Len(cache) = 1
    /\ ~IsDup(cache, calls[1].key, now)

\* ------------------------------------------ handleWebhook on one purchase

\* Whole units bought, with one, two and three groups of digits
WholeUnits == { 1, 150, 999, 1000, 1001, 12345, 1000000 }

\* The raw amounts delivered: whole units, 150 units and the smallest
\* fraction, 150 units and a half, half a unit, nothing
DeliveredAmounts ==
    { n * Divisor : n \in WholeUnits }
    \cup { 150 * Divisor + 1, 150 * Divisor + (Divisor \div 2), Divisor \div 2, 0 }

\* The recipient wallets, as written in the log: in lower case and in upper
\* case
Recipients == { ALICE, CAROL, Upper("0xalice"), Upper("0xabc1234567890def") }

\* A constant-product Swap log of a registered pool paying out `amount` of
\* the monitored token to recipient `to`
PurchaseLog(pool, amount, to) ==
    RawLog(pool.address, << UNISWAP_V2_SWAP_TOPIC, ROUTER, to >>,
           IF oceanIsToken0(pool) THEN << 0, 0, amount, 0 >> ELSE << 0, 0, 0, amount >>,
           TX1, NumStr(<< 1 >>), Num(100), FALSE)

ConstantProductPools ==
    { KNOWN_POOLS[i] : i \in { j \in 1..Len(KNOWN_POOLS) : KNOWN_POOLS[j].type = "uniswap-v2" } }

\* One delivery of one purchase log, with any answers of the oracles
InitEndToEnd ==
    /\ \E pool \in ConstantProductPools, amount \in DeliveredAmounts, to \in Recipients,
          price \in PriceAnswers, walletStatus \in WalletAnswers :
           /\ webhookBody = FlatPayload(<< PurchaseLog(pool, amount, to) >>)
           /\ oracles = [price |-> price, walletStatuses |-> << walletStatus >>]
    /\ offered = << >>
    /\ alerts = << >>
    /\ canonical = << >>
    /\ stage = "input"
    /\ PipelineAtRest
    /\ DecoderAtRest
    /\ GuardAtRest
    /\ BotAtRest
    /\ ServicesAtRest

\* handleWebhook up to the list of alerts: normalize, decode, the dedupe loop
\* and classifyBuys
EndToEnd ==
    /\ stage = "input"
    /\ LET logs == normalizeLogs(webhookBody)
           events == decodeLogs(logs)
           st == dedupeLoop(events, cache, gone, seen, now)
       IN /\ canonical' = logs
          /\ offered' = eventsOf(st.unique)
          /\ cache' = st.cache
          /\ gone' = st.gone
          /\ seen' = st.seen
          /\ alerts' = classifyBuys(eventsOf(st.unique), MIN_OCEAN_ALERT, oracles.price,
                                    [i \in 1..Len(st.unique) |-> oracles.walletStatuses[1]])
    /\ stage' = "alerted"
    /\ UNCHANGED << now, pc, body, rawEvents, uniqueEvents, buys, handed, response, overlap,
                    webhookBody, oracles, batch, decoded, guardVars, botVars, serviceVars >>

NextEndToEnd == EndToEnd

SpecEndToEnd == InitEndToEnd /\ [][NextEndToEnd]_vars

\* n in decimal with a comma between groups of three digits
RECURSIVE Grouped(_)
Grouped(n) ==
    LET low == n % 1000
    IN IF n < 1000 THEN ToString(n)
       ELSE Grouped(n \div 1000) \o ","
            \o (IF low < 10 THEN "00" ELSE IF low < 100 THEN "0" ELSE "") \o ToString(low)

\* The registry label of the pool at an address
LabelOf(address) ==
    LET i == CHOOSE j \in 1..Len(KNOWN_POOLS) : KNOWN_POOLS[j].address = address
    IN KNOWN_POOLS[i].label

\* The delivered log, its pool and the whole units it pays out
DeliveredLog == webhookBody.logs.arr[1]
DeliveredUnits == DeliveredLog.data.arr[3] \div Divisor

\* The delivery was one purchase of whole units, at or above the threshold,
\* on a pool with the monitored token as token0
WholeUnitPurchase ==
    /\ stage = "alerted"
    /\ DeliveredLog.address = V2_POOL_ADDRESS
    /\ DeliveredLog.data.arr[3] = DeliveredUnits * Divisor
    /\ DeliveredUnits >= MIN_OCEAN_ALERT

\* C25: one purchase of n whole units (n at or above the threshold) on a
\* constant-product pool with the monitored token as token0, recipient W,
\* gives exactly one BuyAlert: its formatted amount is n in decimal with
\* thousands separators and no fraction, its buyer short form is the first six
\* characters, an ellipsis and the last four characters of W in lower case,
\* and its pool label is the registry label of the pool.
C25_EndToEndAlert ==
    WholeUnitPurchase =>
        /\ Len(alerts) = 1
        /\ alerts[1].oceanFormatted = Grouped(DeliveredUnits)
        /\ alerts[1].oceanAmount = DeliveredUnits * Divisor
        /\ LET W == DeliveredLog.topics.arr[3].s
           IN alerts[1].buyerShort = Str(SubSeq(W, 1, 6) \o "..." \o SubSeq(W, Len(W) - 3, Len(W)))
        /\ alerts[1].poolLabel = LabelOf(DeliveredLog.address)

\* 150 units bought by 0XABC1234567890DEF on the OCEAN/WETH pool: one
\* alert, "150"
C25_Witness ==
    /\ WholeUnitPurchase
    /\ DeliveredUnits = 150
    /\ DeliveredLog.topics.arr[3] = Upper("0xabc1234567890def")
    /\ Len(alerts) = 1
    /\ alerts[1].oceanFormatted = "150"
    /\ alerts[1].buyerShort = Str("0xabc1...0def")
    /\ alerts[1].poolLabel = "Uniswap v2 OCEAN/WETH"

\* A million units: two separators
C25_WitnessGrouped ==
    /\ WholeUnitPurchase
    /\ DeliveredUnits = 1000000
    /\ Len(alerts) = 1
    /\ alerts[1].oceanFormatted = "1,000,000"

\* 150 units and a half keep two fractional digits
C25_WitnessFraction ==
    /\ stage = "alerted"
    /\ DeliveredLog.data.arr[3] = 150 * Divisor + (Divisor \div 2)
    /\ Len(alerts) = 1
    /\ alerts[1].oceanFormatted = "150.50"

\* -------------------------------------------------------- middleware/auth

\* Array.prototype.includes
includes(seq, x) == \E i \in 1..Len(seq) : seq[i] = x

\* What a middleware does: pass the request on, or answer with a status
PassOn == [next |-> TRUE, status |-> 0]
Reject(status) == [next |-> FALSE, status |-> status]

\* validateIpAllowlist; the request gives its client address in ip
validateIpAllowlist(req, settings) ==
    IF Falsy(settings.IP_ALLOWLIST) THEN PassOn
    ELSE IF ~includes(settings.IP_ALLOWLIST.arr, req.ip) THEN Reject(403)
    ELSE PassOn

\* validateWebhookSecret; secret is the x-webhook-secret header
validateWebhookSecret(req, settings) ==
    IF Falsy(req.secret) THEN PassOn
    ELSE IF req.secret # settings.WEBHOOK_SECRET THEN Reject(401)
    ELSE PassOn

\* --------------------------------------------------------- telegram/config

configIndex(store, chatId) ==
    IF \E i \in 1..Len(store) : store[i].chatId = chatId
    THEN CHOOSE i \in 1..Len(store) : store[i].chatId = chatId
    ELSE 0

\* ConfigManager.getConfig: the stored config of the chat, or a default one
\* that it stores
getConfig(store, chatId, settings) ==
    IF configIndex(store, chatId) # 0
    THEN [config |-> store[configIndex(store, chatId)], store |-> store]
    ELSE LET defaultConfig == [chatId |-> chatId, enabled |-> TRUE,
                               minOceanAlert |-> settings.MIN_OCEAN_ALERT]
         IN [config |-> defaultConfig, store |-> Append(store, defaultConfig)]

\* ConfigManager.updateConfig: Object.assign(config, updates)
updateConfig(store, chatId, updates, settings) ==
    LET got == getConfig(store, chatId, settings)
    IN [i \in 1..Len(got.store) |->
           IF got.store[i].chatId = chatId
           THEN [f \in DOMAIN got.store[i] |->
                    IF f \in DOMAIN updates THEN updates[f] ELSE got.store[i][f]]
           ELSE got.store[i]]

\* A chat id that is an array index as an object key: a private chat (group
\* ids are negative)
isArrayIndexKey(chatId) == SubSeq(chatId.s, 1, 1) # "-"

RECURSIVE decimalValue(_)
decimalValue(str) ==
    IF Len(str) = 0 THEN 0
    ELSE LET last == SubSeq(str, Len(str), Len(str))
             digit == CHOOSE d \in 0..9 : SubSeq("0123456789", d + 1, d + 1) = last
         IN 10 * decimalValue(SubSeq(str, 1, Len(str) - 1)) + digit

\* The configs of seq in ascending order of their integer keys
RECURSIVE ascendingKeys(_)
ascendingKeys(seq) ==
    IF Len(seq) = 0 THEN << >>
    ELSE LET least == CHOOSE i \in 1..Len(seq) :
                          \A j \in 1..Len(seq) :
                              decimalValue(seq[i].chatId.s) <= decimalValue(seq[j].chatId.s)
         IN << seq[least] >>
            \o ascendingKeys([i \in 1..(Len(seq) - 1) |-> IF i < least THEN seq[i] ELSE seq[i + 1]])

\* ConfigManager.getAllConfigs: Object.values lists the integer keys in
\* ascending order, then the other keys in insertion order
getAllConfigs(store) ==
    ascendingKeys(SelectSeq(store, LAMBDA c : isArrayIndexKey(c.chatId)))
    \o SelectSeq(store, LAMBDA c : ~isArrayIndexKey(c.chatId))

\* ------------------------------------------------------ services/blacklist

isBlacklisted(listed, address) == toLowerCase(address) \in listed

\* BlacklistService.toggle
toggle(listed, address) ==
    LET normalized == toLowerCase(address)
    IN IF normalized \in listed THEN listed \ { normalized } ELSE listed \cup { normalized }

\* -------------------------------------------------------- telegram/client

\* The state the notifier works on: the config store, the batch queues, the
\* batch timers (per chat, the time its setTimeout is due), the
\* bot.sendMessage calls made, and the clock setTimeout reads
NotifierState(store, queue, timers, outbox, clock) ==
    [store |-> store, queue |-> queue, timers |-> timers, outbox |-> outbox, clock |-> clock]

\* Map.delete
withoutChat(queue, chatId) == [c \in DOMAIN queue \ { chatId } |-> queue[c]]

sendImmediate(nst, chatId, buy) ==
    [nst EXCEPT !.outbox = Append(@, [chatId |-> chatId, kind |-> "alert", buys |-> << buy >>])]

\* Mutant: a timer that is already running is left as it is
addToBatchKeepingTimer(nst, chatId, buy, settings) ==
    [nst EXCEPT !.queue =
        IF chatId \in DOMAIN nst.queue
        THEN [nst.queue EXCEPT ![chatId] = Append(@, buy)]
        ELSE (chatId :> << buy >>) @@ nst.queue,
                !.timers =
        IF chatId \in DOMAIN nst.timers THEN nst.timers
        ELSE (chatId :> nst.clock + settings.DEBOUNCE_MS) @@ nst.timers]

\* TelegramClient.addToBatch: push the alert, clear the chat's running
\* timer and start a new one
addToBatch(nst, chatId, buy, settings) ==
    [nst EXCEPT !.queue =
        IF chatId \in DOMAIN nst.queue
        THEN [nst.queue EXCEPT ![chatId] = Append(@, buy)]
        ELSE (chatId :> << buy >>) @@ nst.queue,
                !.timers =
        (chatId :> nst.clock + settings.DEBOUNCE_MS) @@ withoutChat(nst.timers, chatId)]

\* TelegramClient.flushBatch, up to its bot.sendMessage call
flushBatch(nst, chatId) ==
    IF chatId \notin DOMAIN nst.queue THEN nst
    ELSE IF Len(nst.queue[chatId]) = 0 THEN nst
    ELSE [nst EXCEPT !.queue = withoutChat(nst.queue, chatId),
                     !.timers = withoutChat(nst.timers, chatId),
                     !.outbox = Append(@, [chatId |-> chatId,
                                           kind |-> IF Len(nst.queue[chatId]) = 1
                                                    THEN "alert" ELSE "batch",
                                           buys |-> nst.queue[chatId]])]

\* Mutant: the blacklist is not consulted
sendBuyAlertIgnoringBlacklist(nst, buy, chatId, settings, listed) ==
    LET targetChatId == IF Falsy(chatId) THEN settings.TELEGRAM_CHAT_ID ELSE chatId
        got == getConfig(nst.store, targetChatId, settings)
        after == [nst EXCEPT !.store = got.store]
    IN IF ~got.config.enabled THEN after
       ELSE IF oceanToNumber(buy.oceanAmount) < got.config.minOceanAlert * Divisor THEN after
       ELSE IF settings.DEBOUNCE_MS > 0 THEN addToBatch(after, targetChatId, buy, settings)
       ELSE sendImmediate(after, targetChatId, buy)

\* TelegramClient.sendBuyAlert
sendBuyAlert(nst, buy, chatId, settings, listed) ==
    LET targetChatId == IF Falsy(chatId) THEN settings.TELEGRAM_CHAT_ID ELSE chatId
        got == getConfig(nst.store, targetChatId, settings)
        after == [nst EXCEPT !.store = got.store]
    IN IF ~got.config.enabled THEN after
       ELSE IF oceanToNumber(buy.oceanAmount) < got.config.minOceanAlert * Divisor THEN after
       ELSE IF Truthy(buy.buyerAddress) /\ isBlacklisted(listed, buy.buyerAddress) THEN after
       ELSE IF settings.DEBOUNCE_MS > 0 THEN addToBatch(after, targetChatId, buy, settings)
       ELSE sendImmediate(after, targetChatId, buy)

RECURSIVE broadcastFrom(_, _, _, _, _, _)
broadcastFrom(list, i, nst, buy, settings, listed) ==
    IF i > Len(list) THEN nst
    ELSE broadcastFrom(list, i + 1,
                       IF list[i].enabled
                       THEN sendBuyAlert(nst, buy, list[i].chatId, settings, listed)
                       ELSE nst,
                       buy, settings, listed)

\* TelegramClient.broadcastBuyAlert
broadcastBuyAlert(nst, buy, settings, listed) ==
    LET list == getAllConfigs(nst.store)
        after == broadcastFrom(list, 1, nst, buy, settings, listed)
    IN IF Len(list) = 0 THEN sendBuyAlert(after, buy, Undef, settings, listed) ELSE after

RECURSIVE broadcastAll(_, _, _, _, _)
broadcastAll(alertList, i, nst, settings, listed) ==
    IF i > Len(alertList) THEN nst
    ELSE broadcastAll(alertList, i + 1,
                      broadcastBuyAlert(nst, alertList[i], settings, listed), settings, listed)

\* ------------------------------------------------------ telegram/commands

isAllowedChat(chatId, settings) ==
    IF Falsy(settings.TELEGRAM_ALLOWED_CHATS) THEN TRUE
    ELSE includes(settings.TELEGRAM_ALLOWED_CHATS.arr, chatId)

\* Mutant: every user passes the admin check
isUserAdminAlways(member) == TRUE

\* isUserAdmin: member is what bot.getChatMember answers for the sender,
\* "failed" when the call throws
isUserAdmin(member) == member \in { "creator", "administrator" }

\* What a command handler leaves: the config store, the blacklist and its
\* replies to the chat
Handled(store, listed, chatId, replies) ==
    [store |-> store, listed |-> listed,
     outbox |-> [i \in 1..Len(replies) |-> [chatId |-> chatId, kind |-> replies[i], buys |-> << >>]]]

\* The handlers of /setmin, /enable and /disable share their checks
settingsCommand(msg, store, listed, settings, updates) ==
    IF ~isAllowedChat(msg.chatId, settings) THEN Handled(store, listed, msg.chatId, << >>)
    ELSE IF ~(msg.type = "private" \/ isUserAdmin(msg.member))
    THEN Handled(store, listed, msg.chatId, << "only-admins" >>)
    ELSE Handled(updateConfig(store, msg.chatId, updates, settings), listed, msg.chatId,
                 << "updated" >>)

\* bot.onText(/\/setmin (.+)/): arg is the text after the command
onSetMin(msg, store, listed, settings) ==
    IF ~isAllowedChat(msg.chatId, settings) THEN Handled(store, listed, msg.chatId, << >>)
    ELSE IF ~(msg.type = "private" \/ isUserAdmin(msg.member))
    THEN Handled(store, listed, msg.chatId, << "only-admins" >>)
    ELSE LET amount == IF IsNumber(msg.arg) THEN msg.arg.v ELSE NaN
         IN IF amount = NaN \/ amount < 0
            THEN Handled(store, listed, msg.chatId, << "invalid-amount" >>)
            ELSE settingsCommand(msg, store, listed, settings, [minOceanAlert |-> amount])

onEnable(msg, store, listed, settings) ==
    settingsCommand(msg, store, listed, settings, [enabled |-> TRUE])

onDisable(msg, store, listed, settings) ==
    settingsCommand(msg, store, listed, settings, [enabled |-> FALSE])

\* bot.onText(/\/status/): public, reads the config of the chat
onStatus(msg, store, listed, settings) ==
    IF ~isAllowedChat(msg.chatId, settings) THEN Handled(store, listed, msg.chatId, << >>)
    ELSE Handled(getConfig(store, msg.chatId, settings).store, listed, msg.chatId, << "status" >>)

\* bot.onText(/\/blacklist(.*)/) with an address as argument
onBlacklist(msg, store, listed, settings) ==
    IF ~isAllowedChat(msg.chatId, settings) THEN Handled(store, listed, msg.chatId, << >>)
    ELSE IF ~isUserAdmin(msg.member)
    THEN Handled(store, listed, msg.chatId, << "only-admins" >>)
    ELSE Handled(store, toggle(listed, msg.arg), msg.chatId,
                 << IF isBlacklisted(listed, msg.arg) THEN "removed" ELSE "blacklisted" >>)

handleMessage(msg, store, listed, settings) ==
    IF msg.command = "setmin" THEN onSetMin(msg, store, listed, settings)
    ELSE IF msg.command = "enable" THEN onEnable(msg, store, listed, settings)
    ELSE IF msg.command = "disable" THEN onDisable(msg, store, listed, settings)
    ELSE IF msg.command = "status" THEN onStatus(msg, store, listed, settings)
    ELSE onBlacklist(msg, store, listed, settings)

\* -------------------------------------------- the bot: webhook and commands

\* Alerts waiting in one batch queue
MaxQueue == 2

\* Pending bot.sendMessage calls of flushes at one time
MaxSending == 1

GROUP_CHAT == Str("-1001")
PRIVATE_CHAT == Str("42")

chatTypeOf(chatId) == IF chatId = PRIVATE_CHAT THEN "private" ELSE "group"

SECRET == Str("0123456789abcdef")
PROVIDER_IP == Str("198.51.100.7")
OTHER_IP == Str("203.0.113.9")

\* The settings of a deployment
Deployment(minimum, debounce, allowedChats, allowedIps) ==
    [MIN_OCEAN_ALERT |-> minimum, DEBOUNCE_MS |-> debounce, TELEGRAM_CHAT_ID |-> GROUP_CHAT,
     TELEGRAM_ALLOWED_CHATS |-> allowedChats, WEBHOOK_SECRET |-> SECRET,
     IP_ALLOWLIST |-> allowedIps]

\* Alerts sent at once; the global minimum is the default or one unit more;
\* open to every chat and address, or restricted to the group chat and to
\* the provider's address
Settings ==
    { Deployment(minimum, 0, lists.chats, lists.ips) :
          minimum \in { MIN_OCEAN_ALERT, MIN_OCEAN_ALERT + 1 },
          lists \in { [chats |-> Undef, ips |-> Undef],
                      [chats |-> Arr(<< GROUP_CHAT >>), ips |-> Arr(<< PROVIDER_IP >>)] } }

\* A purchase on the OCEAN/WETH pool at log index idx of TX1
KeyedPurchaseLog(idx, amount, to) ==
    RawLog(V2_POOL_ADDRESS, << UNISWAP_V2_SWAP_TOPIC, ROUTER, to >>, << 0, 0, amount, 0 >>,
           TX1, NumStr(<< idx >>), Num(100), FALSE)

PostOf(secret, ip, log) == [secret |-> secret, ip |-> ip, body |-> FlatPayload(<< log >>)]

\* POST /webhook requests: without secret header, with the configured secret
\* (from the provider's address or another) or with another secret, carrying
\* one purchase of one or two units
Requests ==
    { PostOf(sender.secret, sender.ip, KeyedPurchaseLog(0, amount, Upper("0xalice"))) :
          sender \in { [secret |-> Undef, ip |-> PROVIDER_IP],
                       [secret |-> SECRET, ip |-> PROVIDER_IP],
                       [secret |-> SECRET, ip |-> OTHER_IP],
                       [secret |-> Str("fedcba9876543210"), ip |-> PROVIDER_IP] },
          amount \in { Divisor * MIN_OCEAN_ALERT, Divisor * (MIN_OCEAN_ALERT + 1) } }

MessageOf(chatId, member, command, arg) ==
    [chatId |-> chatId, type |-> chatTypeOf(chatId), member |-> member,
     command |-> command, arg |-> arg]

\* Chat messages: a settings command or /status, sent in the group by an
\* administrator, by a plain member or by a user whose membership cannot be
\* read, or sent in the private chat; /enable by the group's creator
Messages ==
    { MessageOf(from.chatId, from.member, text.command, text.arg) :
          from \in { [chatId |-> GROUP_CHAT, member |-> "administrator"],
                     [chatId |-> GROUP_CHAT, member |-> "member"],
                     [chatId |-> GROUP_CHAT, member |-> "failed"],
                     [chatId |-> PRIVATE_CHAT, member |-> "member"] },
          text \in { [command |-> "setmin", arg |-> Num(MIN_OCEAN_ALERT)],
                     [command |-> "setmin", arg |-> Num(MIN_OCEAN_ALERT + 1)],
                     [command |-> "setmin", arg |-> Str("abc")],
                     [command |-> "enable", arg |-> Undef],
                     [command |-> "disable", arg |-> Undef],
                     [command |-> "status", arg |-> Undef] } }
    \cup { MessageOf(GROUP_CHAT, "creator", "disable", Undef) }

InitBot ==
    /\ env \in Settings
    /\ configs = << >>
    /\ blacklist = {}
    /\ batchQueue = << >>
    /\ sent = << >>
    /\ incoming = Undef
    /\ batchTimers = << >>
    /\ sending = << >>
    /\ stage = "input"
    /\ PipelineAtRest
    /\ DecoderAtRest
    /\ ClassifierAtRest
    /\ NormalizerAtRest
    /\ GuardAtRest
    /\ ServicesAtRest

\* POST /webhook: the two middlewares, then handleWebhook with the broadcast
\* of every alert (the price and balance oracles give no answer)
PostWebhook(req) ==
    /\ \A c \in DOMAIN batchQueue : Len(batchQueue[c]) < MaxQueue
    /\ LET byIp == validateIpAllowlist(req, env)
           bySecret == validateWebhookSecret(req, env)
           handled == byIp.next /\ bySecret.next
           logs == normalizeLogs(req.body)
           st == dedupeLoop(decodeLogs(logs), cache, gone, seen, now)
           alertList == classifyBuys(eventsOf(st.unique), env.MIN_OCEAN_ALERT, Null,
                                     [i \in 1..Len(st.unique) |-> Null])
           nst == broadcastAll(alertList, 1,
                               NotifierState(configs, batchQueue, batchTimers, << >>, now),
                               env, blacklist)
       IN /\ cache' = IF handled THEN st.cache ELSE cache
          /\ configs' = IF handled THEN nst.store ELSE configs
          /\ batchQueue' = IF handled THEN nst.queue ELSE batchQueue
          /\ batchTimers' = IF handled THEN nst.timers ELSE batchTimers
          /\ sent' = IF handled THEN nst.outbox ELSE << >>
          /\ incoming' = [kind |-> "webhook", secret |-> req.secret, handled |-> handled,
                          status |-> IF ~byIp.next THEN byIp.status
                                     ELSE IF ~bySecret.next THEN bySecret.status
                                     ELSE 200,
                          unique |-> IF handled THEN eventsOf(st.unique) ELSE << >>]
    /\ UNCHANGED << now, pc, body, rawEvents, uniqueEvents, buys, handed, response, gone, seen,
                    overlap, env, blacklist, sending, stage, batch, decoded, classifierVars,
                    normalizerVars, guardVars, serviceVars >>

\* A chat message with a command arrives
Command(msg) ==
    /\ LET done == handleMessage(msg, configs, blacklist, env)
       IN /\ configs' = done.store
          /\ blacklist' = done.listed
          /\ sent' = done.outbox
    /\ incoming' = [kind |-> "message", msg |-> msg]
    /\ UNCHANGED << pipelineVars, env, batchQueue, batchTimers, sending, decoderVars,
                    classifierVars, normalizerVars, guardVars, serviceVars >>

\* The debounce timer of a chat fires, at its due time or later: flushBatch
\* runs up to its bot.sendMessage call, which stays pending
FlushBatch(chatId) ==
    /\ chatId \in DOMAIN batchTimers
    /\ now >= batchTimers[chatId]
    /\ Len(sending) < MaxSending
    /\ LET nst == flushBatch(NotifierState(configs, batchQueue, batchTimers, << >>, now), chatId)
       IN /\ batchQueue' = nst.queue
          /\ batchTimers' = nst.timers
          /\ sent' = nst.outbox
          /\ sending' = sending \o nst.outbox
    /\ incoming' = [kind |-> "timer", chatId |-> chatId]
    /\ UNCHANGED << pipelineVars, env, configs, blacklist, decoderVars, classifierVars,
                    normalizerVars, guardVars, serviceVars >>

\* The oldest pending bot.sendMessage call of a flush resolves or rejects;
\* flushBatch logs the outcome and returns
SendSettles(ok) ==
    /\ sending # << >>
    /\ sending' = Tail(sending)
    /\ sent' = << >>
    /\ incoming' = [kind |-> "settled", ok |-> ok, message |-> Head(sending)]
    /\ UNCHANGED << pipelineVars, env, configs, blacklist, batchQueue, batchTimers, decoderVars,
                    classifierVars, normalizerVars, guardVars, serviceVars >>

NextBot ==
    \/ \E req \in Requests : PostWebhook(req)
    \/ \E msg \in Messages : Command(msg)

SpecBot == InitBot /\ [][NextBot]_vars

\* ------------------------------------------------ the bot with a blacklist

\* The default minimum, no allow-list; alerts sent at once or batched
BlacklistSettings == { Deployment(MIN_OCEAN_ALERT, debounce, Undef, Undef) : debounce \in { 0, 1 } }

\* Authenticated deliveries of one purchase of the minimum amount by the
\* first wallet, under one of two keys
BlacklistRequests ==
    { PostOf(SECRET, PROVIDER_IP, KeyedPurchaseLog(idx, Divisor * MIN_OCEAN_ALERT, to)) :
          idx \in 0..1, to \in { Upper("0xalice") } }

\* /blacklist with the first wallet's address, in lower or upper case, from
\* an administrator of the group; /status from the private chat
BlacklistMessages ==
    { MessageOf(GROUP_CHAT, "administrator", "blacklist", ALICE),
      MessageOf(GROUP_CHAT, "administrator", "blacklist", Upper("0xalice")),
      MessageOf(PRIVATE_CHAT, "member", "status", Undef) }

InitBlacklist ==
    /\ env \in BlacklistSettings
    /\ configs = << >>
    /\ blacklist = {}
    /\ batchQueue = << >>
    /\ sent = << >>
    /\ incoming = Undef
    /\ batchTimers = << >>
    /\ sending = << >>
    /\ stage = "input"
    /\ PipelineAtRest
    /\ DecoderAtRest
    /\ ClassifierAtRest
    /\ NormalizerAtRest
    /\ GuardAtRest
    /\ ServicesAtRest

NextBlacklist ==
    \/ \E req \in BlacklistRequests : PostWebhook(req)
    \/ \E msg \in BlacklistMessages : Command(msg)
    \/ \E chatId \in { GROUP_CHAT, PRIVATE_CHAT } : FlushBatch(chatId)
    \/ \E ok \in BOOLEAN : SendSettles(ok)
    \/ Tick

SpecBlacklist == InitBlacklist /\ [][NextBlacklist]_vars

\* The last step handled a POST /webhook request / a chat message
WebhookStep(i) == i # Undef /\ i.kind = "webhook"
MessageStep(i) == i # Undef /\ i.kind = "message"

\* C26: a POST /webhook request reaches handleWebhook only if its
\* X-Webhook-Secret header equals the configured WEBHOOK_SECRET.
C26_SecretRequired ==
    (WebhookStep(incoming) /\ incoming.handled) => incoming.secret = env.WEBHOOK_SECRET

\* A request without the header was handled: its purchase is in the dedupe
\* guard and its alert was sent
C26_Witness ==
    /\ WebhookStep(incoming)
    /\ incoming.secret = Undef
    /\ incoming.handled
    /\ incoming.status = 200
    /\ Len(cache) = 1
    /\ Len(sent) = 1
    /\ sent[1].kind = "alert"

\* A request with another secret than the configured one is answered 401 (403
\* when its address is not allowed) and handleWebhook does not run
C26_WrongSecretRejected ==
    (WebhookStep(incoming) /\ ~Falsy(incoming.secret) /\ incoming.secret # env.WEBHOOK_SECRET)
        => /\ ~incoming.handled
           /\ incoming.status \in { 401, 403 }
           /\ sent = << >>

\* The step's messages hold an alert for the event, addressed to the chat
NotifiedIn(outbox, chatId, event) ==
    \E k \in 1..Len(outbox) :
        /\ outbox[k].chatId = chatId
        /\ outbox[k].kind = "alert"
        /\ \E b \in 1..Len(outbox[k].buys) :
               /\ outbox[k].buys[b].txHash = event.transactionHash
               /\ outbox[k].buys[b].ofLogIndex = event.logIndex

\* C27: for a chat with alerts enabled and minimum m, every non-duplicate
\* purchase of at least m OCEAN by a non-blacklisted buyer is sent to the
\* chat and no purchase below m is, whatever the global MIN_OCEAN_ALERT.
C27_PerChatMinimum ==
    [][(WebhookStep(incoming') /\ incoming'.handled) =>
           \A e \in 1..Len(incoming'.unique), i \in 1..Len(configs) :
               LET event == incoming'.unique[e]
                   m == configs[i].minOceanAlert
               IN (event.isBuy /\ configs[i].enabled) =>
                      /\ (event.oceanAmount >= m * Divisor
                          /\ ~isBlacklisted(blacklist, event.buyerAddress))
                             => NotifiedIn(sent', configs[i].chatId, event)
                      /\ event.oceanAmount < m * Divisor
                             => ~NotifiedIn(sent', configs[i].chatId, event)]_vars

\* What holds instead: a purchase is sent to the chat exactly when it is at
\* least the chat's minimum and at least the global minimum
C27_BothMinimums ==
    [][(WebhookStep(incoming') /\ incoming'.handled) =>
           \A e \in 1..Len(incoming'.unique), i \in 1..Len(configs) :
               LET event == incoming'.unique[e]
                   m == configs[i].minOceanAlert
               IN (event.isBuy /\ configs[i].enabled
                   /\ ~isBlacklisted(blacklist, event.buyerAddress)) =>
                      (NotifiedIn(sent', configs[i].chatId, event)
                          <=> /\ event.oceanAmount >= m * Divisor
                              /\ event.oceanAmount >= env.MIN_OCEAN_ALERT * Divisor)]_vars

\* The group's minimum was set to one unit under a global minimum of two: a
\* new purchase of one unit was handled and nothing was sent
C27_Witness ==
    /\ WebhookStep(incoming)
    /\ incoming.handled
    /\ Len(incoming.unique) = 1
    /\ incoming.unique[1].oceanAmount = Divisor * MIN_OCEAN_ALERT
    /\ env.MIN_OCEAN_ALERT = MIN_OCEAN_ALERT + 1
    /\ configIndex(configs, GROUP_CHAT) # 0
    /\ configs[configIndex(configs, GROUP_CHAT)].enabled
    /\ configs[configIndex(configs, GROUP_CHAT)].minOceanAlert = MIN_OCEAN_ALERT
    /\ sent = << >>

\* The sender of a chat message is refused by the admin check of the
\* settings commands
NotAdmin(msg) == msg.type # "private" /\ msg.member \notin { "creator", "administrator" }

OutsideAllowList(msg) ==
    /\ env.TELEGRAM_ALLOWED_CHATS # Undef
    /\ \A i \in 1..Len(env.TELEGRAM_ALLOWED_CHATS.arr) :
           env.TELEGRAM_ALLOWED_CHATS.arr[i] # msg.chatId

\* C29: /setmin, /enable or /disable sent in a group by a user who is not
\* creator or administrator, or whose admin check fails, leaves the stored
\* configuration unchanged; a command from a chat outside a configured
\* allow-list changes nothing and gets no reply.
C29_OnlyAdminsChangeSettings ==
    [][MessageStep(incoming') =>
           /\ (incoming'.msg.command \in { "setmin", "enable", "disable" }
               /\ NotAdmin(incoming'.msg))
                  => configs' = configs
           /\ OutsideAllowList(incoming'.msg)
                  => /\ configs' = configs
                     /\ blacklist' = blacklist
                     /\ sent' = << >>]_vars

\* The group's alerts were disabled by an administrator; a plain member's
\* /enable was refused and the alerts are still disabled
C29_Witness ==
    /\ MessageStep(incoming)
    /\ incoming.msg = MessageOf(GROUP_CHAT, "member", "enable", Undef)
    /\ configIndex(configs, GROUP_CHAT) # 0
    /\ ~configs[configIndex(configs, GROUP_CHAT)].enabled
    /\ Len(sent) = 1
    /\ sent[1].kind = "only-admins"

\* /setmin from the private chat, which is outside the allow-list, after the
\* group's settings were stored: nothing stored for the private chat, no reply
C29_WitnessOutside ==
    /\ MessageStep(incoming)
    /\ incoming.msg.chatId = PRIVATE_CHAT
    /\ incoming.msg.command = "setmin"
    /\ env.TELEGRAM_ALLOWED_CHATS # Undef
    /\ Len(configs) = 1
    /\ configs[1].chatId = GROUP_CHAT
    /\ sent = << >>

\* In a private chat the sender counts as admin whatever getChatMember says
C29_PrivateChatIsAdmin ==
    /\ MessageStep(incoming)
    /\ incoming.msg = MessageOf(PRIVATE_CHAT, "member", "disable", Undef)
    /\ configIndex(configs, PRIVATE_CHAT) # 0
    /\ ~configs[configIndex(configs, PRIVATE_CHAT)].enabled

\* The number of alerts waiting in the batch queue of the chat
QueueLength(queue, chatId) == IF chatId \in DOMAIN queue THEN Len(queue[chatId]) ELSE 0

\* The step appended an alert for the event to the batch queue of the chat
QueuedIn(chatId, event) ==
    /\ chatId \in DOMAIN batchQueue'
    /\ \E b \in (QueueLength(batchQueue, chatId) + 1)..Len(batchQueue'[chatId]) :
           /\ batchQueue'[chatId][b].txHash = event.transactionHash
           /\ batchQueue'[chatId][b].ofLogIndex = event.logIndex

C28_WitnessNotifiedAgain ==
    /\ WebhookStep(incoming)
    /\ incoming.handled
    /\ Len(incoming.unique) = 1
    /\ incoming.unique[1].buyerAddress = ALICE
    /\ incoming.unique[1].logIndex = 1
    /\ blacklist = {}
    /\ Len(cache) = 2
    /\ cache[1].key.idx = 0
    /\ NotifiedIn(sent, GROUP_CHAT, incoming.unique[1])
    /\ Len(sent) = 1

\* An alert queued before its buyer was blacklisted is sent when the timer
\* fires: flushBatch does not consult the blacklist
C28_QueuedBeforeListed ==
    /\ incoming # Undef
    /\ incoming.kind = "timer"
    /\ blacklist = { ALICE }
    /\ Len(sent) = 1
    /\ \E b \in 1..Len(sent[1].buys) : sent[1].buys[b].buyerAddress = ALICE

\* ------------------------------------------------------------ batch alerts

\* The step is a call of the webhook handler / the firing of a batch timer
IsWebhookStep == WebhookStep(incoming') /\ incoming'.handled /\ now' = now /\ sending' = sending

IsFlushStep ==
    /\ incoming' # Undef
    /\ incoming'.kind = "timer"
    /\ now' = now
    /\ sending' # sending

\* The alerts the step appended to the batch queue of the chat
AppendedTo(chatId) ==
    IF chatId \in DOMAIN batchQueue'
    THEN SubSeq(batchQueue'[chatId], QueueLength(batchQueue, chatId) + 1,
                Len(batchQueue'[chatId]))
    ELSE << >>

\* C31: with DEBOUNCE_MS > 0, (a) a handled delivery sends nothing itself,
\* keeps what is queued and appends each accepted alert exactly once to the
\* queue of each chat that accepts it, and the chat's timer is then due
\* DEBOUNCE_MS after this latest alert; (b) a timer fires no earlier than it
\* is due, its one message holds exactly the alerts queued for the chat, in
\* order, and afterwards the chat has neither queue nor timer while the other
\* chats keep theirs; (c) no other step touches queues or timers; and a chat
\* has a timer running exactly when it has alerts queued.
C31_BatchedExactlyOnce ==
    [][env.DEBOUNCE_MS > 0 =>
        /\ DOMAIN batchQueue' = DOMAIN batchTimers'
        /\ \A c \in DOMAIN batchQueue' : Len(batchQueue'[c]) > 0
        /\ IsWebhookStep =>
              /\ sent' = << >>
              /\ \A c \in { GROUP_CHAT, PRIVATE_CHAT } :
                    /\ c \in DOMAIN batchQueue =>
                          /\ c \in DOMAIN batchQueue'
                          /\ SubSeq(batchQueue'[c], 1, Len(batchQueue[c])) = batchQueue[c]
                    /\ Len(AppendedTo(c)) > 0 => batchTimers'[c] = now + env.DEBOUNCE_MS
                    /\ Len(AppendedTo(c)) = 0 /\ c \in DOMAIN batchTimers =>
                          batchTimers'[c] = batchTimers[c]
                    /\ \A e \in 1..Len(incoming'.unique) :
                          Cardinality({ b \in 1..Len(AppendedTo(c)) :
                                          /\ AppendedTo(c)[b].txHash = incoming'.unique[e].transactionHash
                                          /\ AppendedTo(c)[b].ofLogIndex = incoming'.unique[e].logIndex })
                          = IF /\ \E i \in 1..Len(configs') :
                                      /\ configs'[i].chatId = c
                                      /\ configs'[i].enabled
                                      /\ incoming'.unique[e].oceanAmount
                                             >= configs'[i].minOceanAlert * Divisor
                               /\ (Len(configs) = 0 => c = env.TELEGRAM_CHAT_ID)
                               /\ incoming'.unique[e].oceanAmount >= env.MIN_OCEAN_ALERT * Divisor
                               /\ toLowerCase(incoming'.unique[e].buyerAddress) \notin blacklist
                            THEN 1 ELSE 0
        /\ IsFlushStep =>
              LET c == incoming'.chatId
              IN /\ c \in DOMAIN batchTimers
                 /\ now >= batchTimers[c]
                 /\ Len(sent') = 1
                 /\ sent'[1].chatId = c
                 /\ sent'[1].buys = batchQueue[c]
                 /\ sending' = Append(sending, sent'[1])
                 /\ c \notin DOMAIN batchQueue'
                 /\ c \notin DOMAIN batchTimers'
                 /\ \A d \in DOMAIN batchQueue \ { c } :
                        /\ d \in DOMAIN batchQueue'
                        /\ batchQueue'[d] = batchQueue[d]
                        /\ batchTimers'[d] = batchTimers[d]
        /\ (~IsWebhookStep /\ ~IsFlushStep) =>
              /\ batchQueue' = batchQueue
              /\ batchTimers' = batchTimers]_vars

\* A timer fired after two alerts had been queued for the group: one batch
\* message with both, and the group has neither queue nor timer
C31_Witness ==
    /\ env.DEBOUNCE_MS > 0
    /\ incoming # Undef
    /\ incoming.kind = "timer"
    /\ incoming.chatId = GROUP_CHAT
    /\ Len(sent) = 1
    /\ sent[1].kind = "batch"
    /\ Len(sent[1].buys) = 2
    /\ sent[1].buys[1].ofLogIndex # sent[1].buys[2].ofLogIndex
    /\ GROUP_CHAT \notin DOMAIN batchQueue
    /\ GROUP_CHAT \notin DOMAIN batchTimers

\* A second alert re-armed the timer of the group: it is due DEBOUNCE_MS
\* after the clock, later than the timer of the first alert was
C31_WitnessRearmed ==
    /\ env.DEBOUNCE_MS > 0
    /\ WebhookStep(incoming)
    /\ GROUP_CHAT \in DOMAIN batchQueue
    /\ Len(batchQueue[GROUP_CHAT]) = 2
    /\ now = 1
    /\ batchTimers[GROUP_CHAT] = now + env.DEBOUNCE_MS
    /\ PRIVATE_CHAT \in DOMAIN batchTimers
    /\ batchTimers[PRIVATE_CHAT] = batchTimers[GROUP_CHAT]

\* While the message of a flush is still being sent, a new alert for the
\* same chat waits in a new queue with a new timer
C31_WitnessNextBatch ==
    /\ Len(sending) = 1
    /\ sending[1].chatId = GROUP_CHAT
    /\ GROUP_CHAT \in DOMAIN batchQueue
    /\ GROUP_CHAT \in DOMAIN batchTimers
    /\ \A b \in 1..Len(sending[1].buys) :
           sending[1].buys[b].ofLogIndex # batchQueue[GROUP_CHAT][1].ofLogIndex

\* bot.sendMessage rejected the message of a flush: flushBatch logs the error
\* and the alerts of the message are in no queue
C31_RejectedSendDropsBatch ==
    /\ incoming # Undef
    /\ incoming.kind = "settled"
    /\ ~incoming.ok
    /\ batchQueue = << >>
    /\ sending = << >>

\* ------------------------------------------- services: retryWithBackoff

\* ratio.ts and top-buyers.ts
MAX_RETRIES == 3
RETRY_DELAY_MS_RATIO == 2000
RETRY_DELAY_MS_TOP_BUYERS == 1000

\* The largest maxRetries a call is made with
MaxAttempts == 4

\* Math.pow(2, n) for a natural n
RECURSIVE pow2(_)
pow2(n) == IF n = 0 THEN 1 ELSE 2 * pow2(n - 1)

\* Mutant: the same delay after every failed attempt
backoffDelayConstant(delayMs, attempt) == delayMs

\* const backoffDelay = delayMs * Math.pow(2, attempt - 1)
backoffDelay(delayMs, attempt) == delayMs * pow2(attempt - 1)

\* What the wrapped function resolves with / rejects with
FnValues == { "data", "other data" }
FnErrors == { "timeout", "rate limited" }

\* A call of retryWithBackoff about to test its loop condition for the first
\* time; `called` lists the outcomes of the fn() calls made, `waits` the
\* delays of the setTimeout calls made
RetryCall(maxRetries, delayMs) ==
    [pc |-> "loop", maxRetries |-> maxRetries, delayMs |-> delayMs, attempt |-> 1,
     lastError |-> Undef, called |-> << >>, waits |-> << >>, outcome |-> Undef]

InitRetry ==
    /\ \E maxRetries \in 1..MaxAttempts :
       \E delayMs \in { RETRY_DELAY_MS_RATIO, RETRY_DELAY_MS_TOP_BUYERS } :
           retry = RetryCall(maxRetries, delayMs)
    /\ monitor = Undef
    /\ togglers = << >>
    /\ stage = "input"
    /\ PipelineAtRest
    /\ DecoderAtRest
    /\ ClassifierAtRest
    /\ NormalizerAtRest
    /\ GuardAtRest
    /\ BotAtRest

\* for (...; attempt <= maxRetries; ...): enter the body and call fn(), or
\* leave the loop, log and throw lastError
LoopTest ==
    /\ retry # Undef
    /\ retry.pc = "loop"
    /\ retry' = IF retry.attempt <= retry.maxRetries
                THEN [retry EXCEPT !.pc = "calling"]
                ELSE [retry EXCEPT !.pc = "thrown",
                                   !.outcome = [threw |-> retry.lastError]]
    /\ UNCHANGED << pipelineVars, decoderVars, classifierVars, normalizerVars, guardVars,
                    botVars, monitor, togglers >>

\* return await fn(): the promise resolves
FnResolves(value) ==
    /\ retry # Undef
    /\ retry.pc = "calling"
    /\ retry' = [retry EXCEPT !.pc = "returned",
                              !.called = Append(@, [ok |-> TRUE, value |-> value]),
                              !.outcome = [returned |-> value]]
    /\ UNCHANGED << pipelineVars, decoderVars, classifierVars, normalizerVars, guardVars,
                    botVars, monitor, togglers >>

\* The promise rejects: the catch block keeps the error and, unless this was
\* the last attempt, starts the backoff timer
FnRejects(error) ==
    /\ retry # Undef
    /\ retry.pc = "calling"
    /\ retry' = IF retry.attempt < retry.maxRetries
                THEN [retry EXCEPT !.pc = "waiting",
                                   !.lastError = error,
                                   !.called = Append(@, [ok |-> FALSE, error |-> error]),
                                   !.waits = Append(@, backoffDelay(retry.delayMs, retry.attempt))]
                ELSE [retry EXCEPT !.pc = "loop",
                                   !.lastError = error,
                                   !.called = Append(@, [ok |-> FALSE, error |-> error]),
                                   !.attempt = @ + 1]
    /\ UNCHANGED << pipelineVars, decoderVars, classifierVars, normalizerVars, guardVars,
                    botVars, monitor, togglers >>

\* The backoff timer fires: attempt++
BackoffElapsed ==
    /\ retry # Undef
    /\ retry.pc = "waiting"
    /\ retry' = [retry EXCEPT !.pc = "loop", !.attempt = @ + 1]
    /\ UNCHANGED << pipelineVars, decoderVars, classifierVars, normalizerVars, guardVars,
                    botVars, monitor, togglers >>

NextRetry ==
    \/ LoopTest
    \/ \E value \in FnValues : FnResolves(value)
    \/ \E error \in FnErrors : FnRejects(error)
    \/ BackoffElapsed

\* Every promise the call awaits settles and every timer it starts fires
SpecRetry == InitRetry /\ [][NextRetry]_vars /\ WF_vars(NextRetry)

\* The number of fn() calls that rejected
Failures(r) == Cardinality({ k \in 1..Len(r.called) : ~r.called[k].ok })

\* C32 (safety part): at most maxRetries calls of fn; after a call resolved
\* no further call is made and its value is returned; failed attempt k is
\* followed by a wait of delayMs * 2^(k-1), except the last possible attempt,
\* which is followed by none; the call throws only after maxRetries failed
\* calls, and it throws the error of the last one.
RetryContract ==
    retry # Undef =>
        /\ Len(retry.called) <= retry.maxRetries
        /\ \A k \in 1..Len(retry.called) : retry.called[k].ok => k = Len(retry.called)
        /\ (retry.pc = "returned") =
               (Len(retry.called) > 0 /\ retry.called[Len(retry.called)].ok)
        /\ retry.pc = "returned" =>
               retry.outcome = [returned |-> retry.called[Len(retry.called)].value]
        /\ Len(retry.waits) = IF Failures(retry) < retry.maxRetries
                              THEN Failures(retry) ELSE retry.maxRetries - 1
        /\ \A k \in 1..Len(retry.waits) : retry.waits[k] = retry.delayMs * (2 ^ (k - 1))
        /\ retry.pc = "thrown" =>
               /\ Len(retry.called) = retry.maxRetries
               /\ Failures(retry) = retry.maxRetries
               /\ retry.outcome = [threw |-> retry.called[retry.maxRetries].error]

\* C32: retryWithBackoff keeps the contract above at every point, and every
\* call of it ends: it returns or it throws.
C32_RetryWithBackoff ==
    /\ []RetryContract
    /\ <>(retry # Undef /\ retry.pc \in { "returned", "thrown" })

\* Three attempts, the first two failed and were followed by waits of
\* 2000 ms and 4000 ms, the third succeeded and its value was returned
C32_Witness ==
    /\ retry # Undef
    /\ retry.pc = "returned"
    /\ retry.maxRetries = MAX_RETRIES
    /\ retry.delayMs = RETRY_DELAY_MS_RATIO
    /\ Len(retry.called) = 3
    /\ retry.waits = << 2000, 4000 >>
    /\ retry.outcome = [returned |-> "data"]

\* All three attempts failed: two waits, and the third error is thrown
C32_WitnessThrown ==
    /\ retry # Undef
    /\ retry.pc = "thrown"
    /\ retry.maxRetries = MAX_RETRIES
    /\ retry.delayMs = RETRY_DELAY_MS_TOP_BUYERS
    /\ retry.called = << [ok |-> FALSE, error |-> "timeout"], [ok |-> FALSE, error |-> "timeout"],
                         [ok |-> FALSE, error |-> "rate limited"] >>
    /\ retry.waits = << 1000, 2000 >>
    /\ retry.outcome = [threw |-> "rate limited"]

\* -------------------------------------------------- one response each

\* The empty payload, one purchase, two purchases, the reorg removal of a
\* purchase, and a purchase below the threshold
LivePayloads ==
    { FlatPayload(<< >>),
      FlatPayload(<< V2SwapLog(0, FALSE, 0, Divisor * MIN_OCEAN_ALERT) >>),
      FlatPayload(<< V2SwapLog(0, FALSE, 0, Divisor * MIN_OCEAN_ALERT),
                     V2SwapLog(1, FALSE, 0, Divisor * MIN_OCEAN_ALERT) >>),
      FlatPayload(<< V2SwapLog(0, TRUE, 0, Divisor * MIN_OCEAN_ALERT) >>),
      FlatPayload(<< V2SwapLog(MaxLogIndex, FALSE, 0, (Divisor * MIN_OCEAN_ALERT) \div 2) >>) }

NextLive ==
    \/ \E d \in Deliveries, p \in LivePayloads : ReceiveEmpty(d, p)
    \/ \E d \in Deliveries, p \in LivePayloads : Receive(d, p)
    \/ \E d \in Deliveries, answers \in OracleAnswers : Classify(d, answers)
    \/ \E d \in Deliveries : Notify(d)
    \/ \E d \in Deliveries : NotifyFail(d)
    \/ \E d \in Deliveries : Respond(d)
    \/ Tick

\* Every await of handleWebhook settles: a step that can be taken is taken
SpecLive == Init /\ [][NextLive]_vars /\ WF_vars(NextLive)

\* What one step may do to the response of delivery d
ResponseStep(d) ==
    /\ response[d] # NoResponse =>
           /\ response'[d] = response[d]
           /\ handed'[d] = handed[d]
    /\ response'[d] # response[d] =>
           /\ pc'[d] \in { "done", "failed" }
           /\ response'[d].status \in { 200, 500 }
           /\ response'[d].status = 200 =>
                  /\ handed[d] = Len(buys[d])
                  /\ response'[d].processed = Len(buys[d])

HandedFor(d, k) == { i \in AlertsFor(d, k) : i <= handed[d] }

\* Delivery d1 ended with the error response and delivery d2, of the same
\* payload and not running at the same time, ended normally
FailedAndRedelivered(d1, d2) ==
    /\ d1 # d2
    /\ pc[d1] = "failed"
    /\ pc[d2] = "done"
    /\ body[d1] = body[d2]
    /\ d1 \notin overlap[d2]
    /\ d2 \notin overlap[d1]

\* C33: when a delivery failed after its dedupe loop and the same payload
\* was delivered again and processed to the end, every qualifying purchase
\* of the payload has had an alert handed to the notifier, by one of the two.
C33_RedeliveryRecovers ==
    \A d1 \in Deliveries, d2 \in Deliveries :
        FailedAndRedelivered(d1, d2) =>
            \A k \in Qualifying(rawEvents[d1]) :
                HandedFor(d1, k) \cup HandedFor(d2, k) # {}

\* The first delivery failed on its only alert; the redelivery found the
\* key in the guard, classified nothing and answered 200 with processed = 0
C33_Witness ==
    /\ FailedAndRedelivered(1, 2)
    /\ Len(buys[1]) = 1
    /\ handed[1] = 0
    /\ Len(rawEvents[2]) = 1
    /\ uniqueEvents[2] = << >>
    /\ buys[2] = << >>
    /\ response[2] = [status |-> 200, processed |-> 0]
    /\ now = 0

\* Redelivered later than the TTL after the failure, the purchase is alerted
C33_RecoveredAfterTtl ==
    /\ FailedAndRedelivered(1, 2)
    /\ Len(buys[1]) = 1
    /\ handed[1] = 0
    /\ Len(buys[2]) = 1
    /\ handed[2] = 1

\* ------------------------------------------- the strategies of the matcher

\* findOceanRecipient cut after its second strategy
FirstTwoStrategies(swapTxHash, swapLogIndex, transferEvents, poolAddress) ==
    LET txTransfers == SelectSeq(transferEvents, LAMBDA t : t.transactionHash = swapTxHash)
        poolTransfers == SelectSeq(txTransfers,
                                   LAMBDA t : /\ t.from = toLowerCase(poolAddress)
                                              /\ t.logIndex > swapLogIndex)
        after == SelectSeq(txTransfers, LAMBDA t : t.logIndex > swapLogIndex)
    IN IF Len(poolTransfers) > 0 THEN poolTransfers[1].to
       ELSE IF Len(after) > 0
            THEN after[CHOOSE i \in 1..Len(after) :
                           /\ \A j \in 1..Len(after) : after[j].logIndex <= after[i].logIndex
                           /\ \A j \in 1..(i - 1) : after[j].logIndex < after[i].logIndex].to
       ELSE Undef

\* C34: for every swap of a decoded batch, the deciding strategy of
\* findOceanRecipient is never the third one and its result is that of the
\* first two strategies alone; when a transfer of the monitored token
\* follows the swap in its transaction, the first or the second strategy
\* decides and the event's buyer is their result.
C34_ThirdStrategyNeverDecides ==
    stage = "decoded" =>
        \A s \in SwapIndices :
            LET swap == batch[s]
                via == findOceanRecipientVia(swap.transactionHash, swap.logIndex,
                                             allTransfersOf(batch), swap.address)
                cut == FirstTwoStrategies(swap.transactionHash, swap.logIndex,
                                          allTransfersOf(batch), swap.address)
            IN /\ via.strategy # "any-transfer"
               /\ via.to = cut
               /\ TransfersAfter(swap) # {} =>
                      /\ via.strategy \in { "pool-direct", "last-transfer" }
                      /\ \A e \in EventsFor(swap) : decoded[e].buyerAddress = cut

\* No transfer from the pool follows the swap, two other transfers do, and
\* the one the third strategy would pick (the first of the batch) names
\* another wallet than the one the second strategy picked
C34_Witness ==
    /\ stage = "decoded"
    /\ \E s \in SwapIndices :
           /\ PoolTransfersAfter(batch[s]) = {}
           /\ Cardinality(TransfersAfter(batch[s])) >= 2
           /\ Recipient(First(TransfersAfter(batch[s]))) # Recipient(First(LastHops(batch[s])))
           /\ findOceanRecipientVia(batch[s].transactionHash, batch[s].logIndex,
                                    allTransfersOf(batch), batch[s].address).strategy
                  = "last-transfer"
           /\ \E e \in EventsFor(batch[s]) :
                  decoded[e].buyerAddress = Recipient(First(LastHops(batch[s])))

\* ------------------------------------------------ services: X account monitor

MONTHLY_TWEET_LIMIT == 1500

\* Math.floor(MONTHLY_TWEET_LIMIT * SAFETY_MARGIN), SAFETY_MARGIN = 0.9
usableLimit == (MONTHLY_TWEET_LIMIT * 9) \div 10

\* How many polls and how many calendar months a run goes through
MaxPolls == 3
MaxMonth == 1

\* The UTF-16 code unit order of two digit characters
codeUnit(char) == CHOOSE d \in 0..9 : SubSeq("0123456789", d + 1, d + 1) = char

\* a > b on JS strings: the first differing code unit decides, a proper
\* prefix is smaller
RECURSIVE stringGreater(_, _)
stringGreater(a, b) ==
    IF Len(a) = 0 THEN FALSE
    ELSE IF Len(b) = 0 THEN TRUE
    ELSE IF SubSeq(a, 1, 1) # SubSeq(b, 1, 1)
         THEN codeUnit(SubSeq(a, 1, 1)) > codeUnit(SubSeq(b, 1, 1))
    ELSE stringGreater(SubSeq(a, 2, Len(a)), SubSeq(b, 2, Len(b)))

\* Array.prototype.sort with (a, b) => a.id.localeCompare(b.id), on strings of
\* digits: stable, ascending in string order
RECURSIVE sortByIdLocale(_)
sortByIdLocale(tweets) ==
    IF Len(tweets) = 0 THEN << >>
    ELSE LET least == CHOOSE i \in 1..Len(tweets) :
                          /\ \A j \in 1..Len(tweets) : ~stringGreater(tweets[i].id, tweets[j].id)
                          /\ \A j \in 1..(i - 1) : tweets[j].id # tweets[i].id
         IN << tweets[least] >>
            \o sortByIdLocale([i \in 1..(Len(tweets) - 1) |->
                                   IF i < least THEN tweets[i] ELSE tweets[i + 1]])

\* XAccountsService.getLastSeen: this.lastSeen.get(normalized) || null, with
\* the empty string standing for null (both are falsy for the caller)
getLastSeen(m, username) ==
    IF username \in DOMAIN m.lastSeen THEN m.lastSeen[username] ELSE ""

\* XAccountsService.setLastSeen
setLastSeen(m, username, tweetId) ==
    [m EXCEPT !.lastSeen = (username :> tweetId) @@ m.lastSeen]

\* XMonitorService.canMakeApiCall
canMakeApiCall(m) == m.used < usableLimit

\* XMonitorService.incrementApiUsage
incrementApiUsage(m) == [m EXCEPT !.used = @ + 1]

\* The loop of checkAccount: postTweet, then setLastSeen, tweet by tweet
RECURSIVE postFrom(_, _, _, _)
postFrom(m, username, newTweets, i) ==
    IF i > Len(newTweets) THEN m
    ELSE postFrom(setLastSeen([m EXCEPT !.posted = Append(@, [username |-> username,
                                                             id |-> newTweets[i].id])],
                              username, newTweets[i].id),
                  username, newTweets, i + 1)

\* XMonitorService.checkAccount with what the X API answered: no such user,
\* a fetch of the tweets that threw, one that answered with an error status,
\* or the list of recent tweets
checkAccount(m, username, answer) ==
    IF answer.kind \in { "no user", "network error" } THEN m
    ELSE IF answer.kind = "http error" THEN incrementApiUsage(m)
    ELSE LET counted == incrementApiUsage(m)
             lastSeenId == getLastSeen(counted, username)
             newTweets == SelectSeq(answer.tweets,
                                    LAMBDA t : Len(lastSeenId) = 0 \/ stringGreater(t.id, lastSeenId))
         IN postFrom(counted, username, sortByIdLocale(newTweets), 1)

\* XMonitorService.loadRateLimitState with the state file as the last save
\* left it: a counter of another month is replaced
loadRateLimitState(m) ==
    IF m.monthStart # m.month THEN [m EXCEPT !.used = 0, !.monthStart = m.month] ELSE m

\* Tweet ids of one digit (older) and of two digits (newer)
TweetIds == { "9", "10", "11" }

\* What GET /users/:id/tweets lists: up to two distinct tweets, in any order
TweetLists ==
    { << >> } \cup { << [id |-> a] >> : a \in TweetIds }
    \cup { << [id |-> p[1]], [id |-> p[2]] >> :
               p \in { q \in TweetIds \X TweetIds : q[1] # q[2] } }

Answers ==
    { [kind |-> "no user"], [kind |-> "network error"], [kind |-> "http error"] }
    \cup { [kind |-> "tweets", tweets |-> tweets] : tweets \in TweetLists }

\* The counter the state file holds when the process starts: none used, or
\* close to the limit
UsedAtStart == { 0, usableLimit - 2 }

InitMonitor ==
    /\ \E used \in UsedAtStart :
           monitor = [accounts |-> << "oceanprotocol", "oceandao" >>,
                      lastSeen |-> << >>,
                      posted |-> << >>,
                      used |-> used,
                      monthStart |-> 0,
                      month |-> 0,
                      polling |-> 0,
                      polls |-> 0]
    /\ retry = Undef
    /\ togglers = << >>
    /\ stage = "input"
    /\ PipelineAtRest
    /\ DecoderAtRest
    /\ ClassifierAtRest
    /\ NormalizerAtRest
    /\ GuardAtRest
    /\ BotAtRest

\* checkAllAccounts starts (the initial check or the interval timer) and
\* reads the account list
StartPoll ==
    /\ monitor # Undef
    /\ monitor.polling = 0
    /\ monitor.polls < MaxPolls
    /\ monitor' = [monitor EXCEPT !.polling = IF Len(monitor.accounts) = 0 THEN 0 ELSE 1,
                                  !.polls = @ + 1]
    /\ UNCHANGED << pipelineVars, decoderVars, classifierVars, normalizerVars, guardVars,
                    botVars, retry, togglers >>

\* The loop of checkAllAccounts finds the budget used up and breaks
SkipRemaining ==
    /\ monitor # Undef
    /\ monitor.polling >= 1
    /\ ~canMakeApiCall(monitor)
    /\ monitor' = [monitor EXCEPT !.polling = 0]
    /\ UNCHANGED << pipelineVars, decoderVars, classifierVars, normalizerVars, guardVars,
                    botVars, retry, togglers >>

\* The loop of checkAllAccounts checks its next account
CheckAccount(answer) ==
    /\ monitor # Undef
    /\ monitor.polling >= 1
    /\ canMakeApiCall(monitor)
    /\ monitor' = [checkAccount(monitor, monitor.accounts[monitor.polling], answer)
                       EXCEPT !.polling = IF monitor.polling = Len(monitor.accounts)
                                          THEN 0 ELSE monitor.polling + 1]
    /\ UNCHANGED << pipelineVars, decoderVars, classifierVars, normalizerVars, guardVars,
                    botVars, retry, togglers >>

\* A new calendar month begins
MonthTurns ==
    /\ monitor # Undef
    /\ monitor.month < MaxMonth
    /\ monitor' = [monitor EXCEPT !.month = @ + 1]
    /\ UNCHANGED << pipelineVars, decoderVars, classifierVars, normalizerVars, guardVars,
                    botVars, retry, togglers >>

\* The process is restarted between two polls: start() loads the state files
Restart ==
    /\ monitor # Undef
    /\ monitor.polling = 0
    /\ monitor.monthStart # monitor.month
    /\ monitor' = loadRateLimitState(monitor)
    /\ UNCHANGED << pipelineVars, decoderVars, classifierVars, normalizerVars, guardVars,
                    botVars, retry, togglers >>

NextMonitor ==
    \/ StartPoll
    \/ SkipRemaining
    \/ \E answer \in Answers : CheckAccount(answer)
    \/ MonthTurns
    \/ Restart

SpecMonitor == InitMonitor /\ [][NextMonitor]_vars

\* The posts of one account, in the order they were made
PostsOf(m, username) == SelectSeq(m.posted, LAMBDA post : post.username = username)

\* The posts the step made for the account
NewPostsOf(username) ==
    SubSeq(PostsOf(monitor', username), Len(PostsOf(monitor, username)) + 1,
           Len(PostsOf(monitor', username)))

\* C36: at every step, no tweet has been posted twice and the posts of each
\* account are in ascending order of their tweet ids (oldest first); a tweet
\* posted in the step has an id greater than the last-seen id stored for its
\* account before the step; the last-seen id of an account never decreases
\* and after a step that posted for the account it is the id of the last
\* tweet posted.
C36_PostedOnceOldestFirst ==
    [][\A username \in { monitor.accounts[i] : i \in 1..Len(monitor.accounts) } :
           LET posts == PostsOf(monitor', username)
               new == NewPostsOf(username)
           IN /\ \A i \in 1..Len(posts), j \in 1..Len(posts) :
                     i < j => decimalValue(posts[i].id) < decimalValue(posts[j].id)
              /\ username \in DOMAIN monitor.lastSeen =>
                     /\ username \in DOMAIN monitor'.lastSeen
                     /\ decimalValue(monitor'.lastSeen[username])
                            >= decimalValue(monitor.lastSeen[username])
                     /\ \A k \in 1..Len(new) :
                            decimalValue(new[k].id) > decimalValue(monitor.lastSeen[username])
              /\ Len(new) > 0 => monitor'.lastSeen[username] = new[Len(new)].id]_vars

\* The same with ids ordered as the code orders them, as strings: holds
C36_InStringOrder ==
    [][\A username \in { monitor.accounts[i] : i \in 1..Len(monitor.accounts) } :
           LET posts == PostsOf(monitor', username)
               new == NewPostsOf(username)
           IN /\ \A i \in 1..Len(posts), j \in 1..Len(posts) :
                     i < j => stringGreater(posts[j].id, posts[i].id)
              /\ username \in DOMAIN monitor.lastSeen =>
                     /\ username \in DOMAIN monitor'.lastSeen
                     /\ ~stringGreater(monitor.lastSeen[username], monitor'.lastSeen[username])
                     /\ \A k \in 1..Len(new) :
                            stringGreater(new[k].id, monitor.lastSeen[username])
              /\ Len(new) > 0 => monitor'.lastSeen[username] = new[Len(new)].id]_vars

\* The first poll found tweets 9 and 10 of an account: tweet 10 was posted
\* before the older tweet 9, which became the last-seen id; after two more
\* polls the newer tweet 11 is still not posted
C36_Witness ==
    /\ monitor # Undef
    /\ PostsOf(monitor, "oceanprotocol")
           = << [username |-> "oceanprotocol", id |-> "10"],
                [username |-> "oceanprotocol", id |-> "9"] >>
    /\ monitor.lastSeen["oceanprotocol"] = "9"
    /\ monitor.polls = MaxPolls
    /\ monitor.polling = 0

\* With ids of one length the tweets are posted oldest first
C36_WitnessSameLength ==
    /\ monitor # Undef
    /\ PostsOf(monitor, "oceanprotocol")
           = << [username |-> "oceanprotocol", id |-> "10"],
                [username |-> "oceanprotocol", id |-> "11"] >>
    /\ monitor.lastSeen["oceanprotocol"] = "11"

\* C37: the counter never exceeds the usable limit, and it counts the calls
\* of the running calendar month: a poll that skips accounts because the
\* budget is used up does so on a counter of the current month, and a call
\* is counted for the current month.
C37_MonthlyBudget ==
    [][/\ monitor'.used <= usableLimit
       /\ (monitor.polling >= 1 /\ monitor'.polling = 0 /\ ~canMakeApiCall(monitor)) =>
              monitor.monthStart = monitor.month
       /\ monitor'.used > monitor.used => monitor'.monthStart = monitor'.month]_vars

\* The counter alone: it never exceeds the usable limit of 1350
C37_NeverAboveLimit == monitor # Undef => monitor.used <= usableLimit

\* The budget was used up in month 0; in month 1 the process still runs, a
\* poll has just skipped its accounts and the counter still stands at 1350
\* for month 0
C37_Witness ==
    /\ monitor # Undef
    /\ monitor.used = usableLimit
    /\ monitor.month = 1
    /\ monitor.monthStart = 0
    /\ monitor.polls = MaxPolls
    /\ monitor.polling = 0

\* After a restart in the new month the counter is zero and counts month 1
C37_ResetOnRestart ==
    /\ monitor # Undef
    /\ monitor.month = 1
    /\ monitor.monthStart = 1
    /\ monitor.used = 1
    /\ monitor.polls >= 2

\* ------------------------------------------- services/blacklist, concurrent

\* toggle calls in flight at once, at most
MaxTogglers == 2

\* The address, as typed in lower and in upper case
ToggleAddresses == { ALICE, Upper("0xalice") }

\* data/blacklist.json: missing (readFile fails with ENOENT), or the
\* addresses it lists
NoFile == [exists |-> FALSE, addresses |-> {}]

FileOf(addresses) == [exists |-> TRUE, addresses |-> addresses]

BlacklistFiles == { NoFile, FileOf({}), FileOf({ ALICE }), FileOf({ Upper("0xalice") }) }

\* new Set(addresses.map(addr => addr.toLowerCase()))
loadedSet(file) == { toLowerCase(addr) : addr \in file.addresses }

\* The synchronous start of initialize(): it returns when the service is
\* initialized, and else starts fs.mkdir; `ret` is where the caller goes on
\* once its await is over
enterInitialize(svc, ret) == IF svc.initialized THEN ret ELSE "init:mkdir"

\* A call of toggle(address), up to its first await
newToggle(svc, address) ==
    [address |-> address,
     pc |-> enterInitialize(svc, "toggle:has"),
     ret |-> "toggle:has",
     branch |-> Undef,
     captured |-> {},
     changed |-> "none",
     result |-> Undef,
     overlapped |-> \E j \in 1..Len(svc.calls) : svc.calls[j].pc # "done"]

\* initialize() after readFile settled: the file's addresses replace the
\* set, or on ENOENT save() takes Array.from(this.blacklist) and starts
\* fs.writeFile
readFileSettled(svc, i) ==
    IF svc.file.exists
    THEN [svc EXCEPT !.blacklist = loadedSet(svc.file),
                     !.initialized = TRUE,
                     !.calls[i].pc = svc.calls[i].ret]
    ELSE [svc EXCEPT !.calls[i].captured = svc.blacklist,
                     !.calls[i].pc = "init:save"]

\* initialize() after the writeFile of its save() settled
initializeSaved(svc, i) ==
    [svc EXCEPT !.file = FileOf(svc.calls[i].captured),
                !.initialized = TRUE,
                !.calls[i].pc = svc.calls[i].ret]

\* toggle() after `await this.initialize()`: the has() test picks remove or
\* add, which starts with its own initialize()
toggleHas(svc, i) ==
    LET normalized == toLowerCase(svc.calls[i].address)
    IN [svc EXCEPT !.calls[i].branch = IF normalized \in svc.blacklist THEN "remove" ELSE "add",
                   !.calls[i].ret = "inner:has",
                   !.calls[i].pc = enterInitialize(svc, "inner:has")]

\* add() or remove() after `await this.initialize()`: has() is tested again;
\* add returns false when the address is there and remove when it is not,
\* and toggle returns true for its add branch and false for its remove
\* branch whatever they returned; else the set is changed and save() starts
innerHas(svc, i) ==
    LET call == svc.calls[i]
        normalized == toLowerCase(call.address)
        isAdd == call.branch = "add"
    IN IF (normalized \in svc.blacklist) = isAdd
       THEN [svc EXCEPT !.calls[i].pc = "done", !.calls[i].result = isAdd]
       ELSE LET changedSet == IF isAdd THEN svc.blacklist \cup { normalized }
                                       ELSE svc.blacklist \ { normalized }
            IN [svc EXCEPT !.blacklist = changedSet,
                           !.calls[i].captured = changedSet,
                           !.calls[i].changed = IF isAdd THEN "added" ELSE "removed",
                           !.calls[i].pc = "inner:save"]

\* add() or remove() after the writeFile of its save() settled; toggle
\* returns
innerSaved(svc, i) ==
    [svc EXCEPT !.file = FileOf(svc.calls[i].captured),
                !.calls[i].pc = "done",
                !.calls[i].result = svc.calls[i].branch = "add"]

\* The service before any toggle: not yet initialized with any file, or
\* initialized from a file that exists
InitToggle ==
    /\ \E initialized \in BOOLEAN, file \in BlacklistFiles :
           /\ initialized => file.exists
           /\ togglers = [initialized |-> initialized,
                          file |-> file,
                          blacklist |-> IF initialized THEN loadedSet(file) ELSE {},
                          before |-> loadedSet(file),
                          calls |-> << >>]
    /\ retry = Undef
    /\ monitor = Undef
    /\ stage = "input"
    /\ PipelineAtRest
    /\ DecoderAtRest
    /\ ClassifierAtRest
    /\ NormalizerAtRest
    /\ GuardAtRest
    /\ BotAtRest

\* The /blacklist handler calls blacklistService.toggle(address)
CallToggle(address) ==
    /\ Len(togglers.calls) < MaxTogglers
    /\ togglers' = [togglers EXCEPT !.calls = Append(@, newToggle(togglers, address))]
    /\ UNCHANGED << pipelineVars, decoderVars, classifierVars, normalizerVars, guardVars,
                    botVars, retry, monitor >>

\* fs.mkdir of a call's initialize() settles and fs.readFile starts
MkdirSettles(i) ==
    /\ togglers.calls[i].pc = "init:mkdir"
    /\ togglers' = [togglers EXCEPT !.calls[i].pc = "init:read"]
    /\ UNCHANGED << pipelineVars, decoderVars, classifierVars, normalizerVars, guardVars,
                    botVars, retry, monitor >>

ReadFileSettles(i) ==
    /\ togglers.calls[i].pc = "init:read"
    /\ togglers' = readFileSettled(togglers, i)
    /\ UNCHANGED << pipelineVars, decoderVars, classifierVars, normalizerVars, guardVars,
                    botVars, retry, monitor >>

InitializeSaved(i) ==
    /\ togglers.calls[i].pc = "init:save"
    /\ togglers' = initializeSaved(togglers, i)
    /\ UNCHANGED << pipelineVars, decoderVars, classifierVars, normalizerVars, guardVars,
                    botVars, retry, monitor >>

ToggleHas(i) ==
    /\ togglers.calls[i].pc = "toggle:has"
    /\ togglers' = toggleHas(togglers, i)
    /\ UNCHANGED << pipelineVars, decoderVars, classifierVars, normalizerVars, guardVars,
                    botVars, retry, monitor >>

InnerHas(i) ==
    /\ togglers.calls[i].pc = "inner:has"
    /\ togglers' = innerHas(togglers, i)
    /\ UNCHANGED << pipelineVars, decoderVars, classifierVars, normalizerVars, guardVars,
                    botVars, retry, monitor >>

InnerSaved(i) ==
    /\ togglers.calls[i].pc = "inner:save"
    /\ togglers' = innerSaved(togglers, i)
    /\ UNCHANGED << pipelineVars, decoderVars, classifierVars, normalizerVars, guardVars,
                    botVars, retry, monitor >>

NextToggle ==
    \/ \E address \in ToggleAddresses : CallToggle(address)
    \/ \E i \in 1..Len(togglers.calls) : MkdirSettles(i)
    \/ \E i \in 1..Len(togglers.calls) : ReadFileSettles(i)
    \/ \E i \in 1..Len(togglers.calls) : InitializeSaved(i)
    \/ \E i \in 1..Len(togglers.calls) : ToggleHas(i)
    \/ \E i \in 1..Len(togglers.calls) : InnerHas(i)
    \/ \E i \in 1..Len(togglers.calls) : InnerSaved(i)

SpecToggle == InitToggle /\ [][NextToggle]_vars

\* The call returned what it did: true iff it added, false iff it removed
ReturnedWhatItDid(call) ==
    /\ call.result = TRUE <=> call.changed = "added"
    /\ call.result = FALSE <=> call.changed = "removed"

\* C38: every toggle call that has returned returned true iff it added the
\* address and false iff it removed it, and once two toggle calls have both
\* returned the blacklist is what it was before them.
C38_ToggleAtomic ==
    LET made == togglers.calls
    IN /\ \A i \in 1..Len(made) : made[i].pc = "done" => ReturnedWhatItDid(made[i])
       /\ (Len(made) = 2 /\ \A i \in 1..Len(made) : made[i].pc = "done") =>
              togglers.blacklist = togglers.before

\* Two calls on a service initialized with an empty blacklist both returned
\* true; the second added nothing, and the address is listed
C38_Witness ==
    /\ Len(togglers.calls) = 2
    /\ togglers.before = {}
    /\ \A i \in 1..2 : togglers.calls[i].pc = "done" /\ togglers.calls[i].result = TRUE
    /\ togglers.calls[1].changed = "added"
    /\ togglers.calls[2].changed = "none"
    /\ togglers.blacklist = { ALICE }

\* A call that ran with no other call in flight returned what it did
C38_AloneIsRight ==
    \A i \in 1..Len(togglers.calls) :
        LET call == togglers.calls[i]
        IN (call.pc = "done" /\ ~call.overlapped
            /\ \A j \in 1..Len(togglers.calls) : j > i => ~togglers.calls[j].overlapped) =>
               ReturnedWhatItDid(call)

\* Two calls one after the other leave the blacklist as it was
C38_WitnessSequential ==
    /\ Len(togglers.calls) = 2
    /\ \A i \in 1..2 : togglers.calls[i].pc = "done" /\ ~togglers.calls[i].overlapped
    /\ togglers.calls[1].result = TRUE
    /\ togglers.calls[2].result = FALSE
    /\ togglers.blacklist = togglers.before

====
